---- MODULE Spec2Model ----
(***************************************************************************)
(* Run lifecycle of the visual-diff worker: the run registry (db.ts), the  *)
(* kill route (routes/runs.ts), run creation (utils.ts) and the            *)
(* ScreenshotWorkflow step sequence (workflow.ts).                         *)
(*                                                                         *)
(* Every D1 statement and every awaited call is one step, so that the      *)
(* statements of concurrent requests interleave the way awaits allow.      *)
(***************************************************************************)
EXTENDS Integers, FiniteSets, Sequences, TLC

\* ------------------------------------------------------------------------
\* Bounds
\* ------------------------------------------------------------------------
\* number of registerRun calls (one fresh run id each) when only registerRun runs
MaxRegs == 3
\* number of registerRun calls next to the other registry operations
MaxRuns == 2
\* number of registerRun calls next to the orchestrators
MaxWfRuns == 2
\* number of killRun calls that find a row
MaxKills == 1
\* number of runs whose orchestration (workflow instance or queue message)
\* is created
MaxInstances == 1
\* number of entries of a screenshot manifest
MaxEntries == 2
\* latest second, early in the wait, at which the manifest may appear
MaxAppear == 3

\* the longest signature header
MaxSigLen == 2

\* ------------------------------------------------------------------------
\* Inputs
\* ------------------------------------------------------------------------
Max(a, b) == IF a >= b THEN a ELSE b
MaxId == Max(MaxRegs, Max(MaxRuns, MaxWfRuns))
RunIds == 1..MaxId
\* id 0 is an id no registerRun call ever uses; as a SELECT result it is null
NoId == 0
KillIds == 0..MaxId

Keys ==
  { [owner |-> "acme", repo |-> "widget", prNumber |-> 42],
    [owner |-> "acme", repo |-> "widget", prNumber |-> 7] }

\* one pull request, where only runs of the same key matter
OneKey ==
  { [owner |-> "acme", repo |-> "widget", prNumber |-> 42] }

CommitShas == {"sha1"}

RunStatus == {"queued", "running", "completed", "cancelled", "failed"}

Active == {"queued", "running"}

Terminal == {"cancelled", "completed", "failed"}

\* the value of runs[id] while the table has no row with that id
NoRow ==
  [owner |-> "", repo |-> "", pr_number |-> 0, commit_sha |-> "",
   status |-> "absent", created_at |-> 0]

VARIABLES
  now,        \* datetime('now') of the latest INSERT, in seconds
  nextId,     \* the next fresh run id (crypto.randomUUID())
  runs,       \* the runs table: run id -> row, or NoRow
  reg,        \* the registerRun call that inserts run id: pc and locals
  kill,       \* the killRun call in flight on run id
  kills,      \* number of killRun calls that found a row
  destroys,   \* sandbox.destroy() attempts per handle, by caller
  wf,         \* the ScreenshotWorkflow instance of run id
  job,        \* the queue message of run id and its consumer
  wait,       \* one attempt of wait-for-agent, second by second
  lastOp      \* the step just taken, its inputs, and what it returned

vars ==
  <<now, nextId, runs, reg, kill, kills, destroys, wf, job, wait, lastOp>>

\* ------------------------------------------------------------------------
\* The runs table
\* ------------------------------------------------------------------------
RowOf(rs, id) == IF id \in RunIds THEN rs[id] ELSE NoRow

SameKey(row, key) ==
  /\ row.owner = key.owner
  /\ row.repo = key.repo
  /\ row.pr_number = key.prNumber

KeyOf(row) == [owner |-> row.owner, repo |-> row.repo, prNumber |-> row.pr_number]

\* WHERE owner = ? AND repo = ? AND pr_number = ? AND status IN ('queued','running')
ActiveFor(rs, key) ==
  {i \in RunIds : SameKey(rs[i], key) /\ rs[i].status \in Active}

\* ORDER BY created_at DESC LIMIT 1: the rows the SELECT may return
\* (rows with the same created_at are in no defined order)
SelectActive(rs, key) ==
  {i \in ActiveFor(rs, key) :
     \A j \in ActiveFor(rs, key) : rs[j].created_at <= rs[i].created_at}

\* UPDATE runs SET status = 'cancelled', updated_at = datetime('now') WHERE id = ?
SetStatusById(rs, id, s) ==
  IF id \in RunIds /\ rs[id] # NoRow
    THEN [rs EXCEPT ![id].status = s]
    ELSE rs

\* updateRunStatus without its status guard
updateRunStatus_Unguarded(rs, runId, s) == SetStatusById(rs, runId, s)

\* updateRunStatus written as an upsert: a missing row is created
updateRunStatus_Upsert(rs, runId, s) ==
  IF runId \in RunIds /\ rs[runId] = NoRow
    THEN [rs EXCEPT ![runId] = [NoRow EXCEPT !.status = s]]
    ELSE IF runId \in RunIds /\ rs[runId].status \notin Terminal
           THEN [rs EXCEPT ![runId].status = s]
           ELSE rs

\* UPDATE runs SET status = ?, updated_at = datetime('now')
\*  WHERE id = ? AND status NOT IN ('cancelled', 'completed', 'failed')
updateRunStatus(rs, runId, s) ==
  IF runId \in RunIds /\ rs[runId] # NoRow /\ rs[runId].status \notin Terminal
    THEN [rs EXCEPT ![runId].status = s]
    ELSE rs

\* isRunActive reading "still active" as "not cancelled"
isRunActive_NotCancelled(rs, runId) ==
  RowOf(rs, runId).status # "cancelled"

\* SELECT status FROM runs WHERE id = ?  ->  queued or running
isRunActive(rs, runId) ==
  /\ runId \in RunIds
  /\ rs[runId].status \in Active

\* the filters of listRuns; an empty string or 0 is a filter that is not given
\* (`if (filters?.owner)` and the like)
ListFilters ==
  [owner : {"", "acme"}, repo : {"", "widget"}, prNumber : {0, 42, 7},
   status : {""} \cup RunStatus]

\* SELECT * FROM runs WHERE <the given filters> ORDER BY created_at DESC
\* LIMIT 50: the ids of the rows returned
listRuns(rs, f) ==
  {i \in RunIds :
     /\ rs[i] # NoRow
     /\ f.owner # "" => rs[i].owner = f.owner
     /\ f.repo # "" => rs[i].repo = f.repo
     /\ f.prNumber # 0 => rs[i].pr_number = f.prNumber
     /\ f.status # "" => rs[i].status = f.status}

NewRow(key, sha, t) ==
  [owner |-> key.owner, repo |-> key.repo, pr_number |-> key.prNumber,
   commit_sha |-> sha, status |-> "queued", created_at |-> t]

\* ------------------------------------------------------------------------
\* Process state
\* ------------------------------------------------------------------------
RegIdle ==
  [pc |-> "idle", key |-> CHOOSE k \in Keys : TRUE, sha |-> "",
   existing |-> NoId, solo |-> FALSE]

WfNone ==
  [pc |-> "none", attempt |-> 0, found |-> FALSE, failedAt |-> "none",
   ran |-> {}, markFailed |-> 0, comments |-> 0]

JobNone ==
  [pc |-> "none", finalStatus |-> "failed", pollCount |-> 0, upload |-> FALSE,
   comments |-> 0, acks |-> 0, poll |-> "none"]

\* the manifest never appears
Never == -1

WaitIdle ==
  [phase |-> "idle", hung |-> FALSE, appears |-> Never, i |-> 0, elapsed |-> 0]

KillIdle == [pc |-> "idle"]

NoDestroys == [register |-> 0, kill |-> 0, cleanup |-> 0]

InFlight(r) == r.pc \notin {"idle", "done"}

\* what the last step did; `caught` says that a call made in the step threw
\* and that the step's try/catch or bestEffort swallowed the error
Op(op, id, arg, ret) ==
  [op |-> op, id |-> id, arg |-> arg, ret |-> ret, caught |-> FALSE]

\* try { ... } catch {} and bestEffort: the error of the call is dropped
Swallow(o, thrown) == [o EXCEPT !.caught = thrown]

\* the state after construction, but for the wait-for-agent attempt
InitBase ==
  /\ now = 0
  /\ nextId = 1
  /\ runs = [i \in RunIds |-> NoRow]
  /\ reg = [i \in RunIds |-> RegIdle]
  /\ kill = [i \in KillIds |-> KillIdle]
  /\ kills = 0
  /\ destroys = [i \in KillIds |-> NoDestroys]
  /\ wf = [i \in RunIds |-> WfNone]
  /\ job = [i \in RunIds |-> JobNone]
  /\ lastOp = Op("step", NoId, "", "")

Init == InitBase /\ wait = WaitIdle

\* datetime('now') has a resolution of one second and never goes back: a
\* statement reads the second of the previous INSERT or a later one (only the
\* order of created_at values is ever used, so later seconds are all alike)
Clock == {now, now + 1}

\* ------------------------------------------------------------------------
\* registerRun
\* ------------------------------------------------------------------------
\* the caller draws a fresh id; registerRun runs its SELECT
RegSelectOf(limit, keys) ==
  /\ nextId <= limit
  /\ nextId \in RunIds
  /\ \E key \in keys, sha \in CommitShas :
       \E ex \in (IF SelectActive(runs, key) = {} THEN {NoId}
                  ELSE SelectActive(runs, key)) :
         /\ reg' = [i \in RunIds |->
                      IF i = nextId
                        THEN [pc |-> IF ex = NoId THEN "insert" ELSE "update",
                              key |-> key, sha |-> sha, existing |-> ex,
                              solo |-> \A j \in RunIds : ~InFlight(reg[j])]
                        ELSE IF InFlight(reg[i])
                               THEN [reg[i] EXCEPT !.solo = FALSE]
                               ELSE reg[i]]
         /\ lastOp' = Op("step", NoId, "", "")
  /\ nextId' = nextId + 1
  /\ UNCHANGED <<now, runs, kill, kills, destroys, wf, job, wait>>

RegSelect == RegSelectOf(MaxRuns, OneKey)

RegSelectOnly == RegSelectOf(MaxRegs, Keys)

\* if (existing): mark the old run as cancelled
RegUpdate(id) ==
  /\ reg[id].pc = "update"
  /\ runs' = SetStatusById(runs, reg[id].existing, "cancelled")
  /\ reg' = [reg EXCEPT ![id].pc = "destroy"]
  /\ lastOp' = Op("step", NoId, "", "")
  /\ UNCHANGED <<now, nextId, kill, kills, destroys, wf, job, wait>>

\* registerRun destroying the new run's handle along with the old one's
RegDestroy_BothHandles(id) ==
  /\ reg[id].pc = "destroy"
  /\ destroys' = [destroys EXCEPT ![reg[id].existing].register = @ + 1,
                                  ![id].register = @ + 1]
  /\ reg' = [reg EXCEPT ![id].pc = "insert"]
  /\ \E thrown \in BOOLEAN :
       lastOp' = Swallow(Op("destroy", id, "registerRun", reg[id].existing),
                         thrown)
  /\ UNCHANGED <<now, nextId, runs, kill, kills, wf, job, wait>>

\* registerRun with its destroy outside any try: the error of destroy leaves
\* the call before the INSERT
RegDestroy_Uncaught(id) ==
  /\ reg[id].pc = "destroy"
  /\ destroys' = [destroys EXCEPT ![reg[id].existing].register = @ + 1]
  /\ \E thrown \in BOOLEAN :
       /\ reg' = [reg EXCEPT ![id].pc = IF thrown THEN "thrown" ELSE "insert"]
       /\ lastOp' = Swallow(Op("destroy", id, "registerRun", reg[id].existing),
                            thrown)
  /\ UNCHANGED <<now, nextId, runs, kill, kills, wf, job, wait>>

\* try { sandbox.destroy() } catch {}: one attempt, its failure swallowed
RegDestroy(id) ==
  /\ reg[id].pc = "destroy"
  /\ destroys' = [destroys EXCEPT ![reg[id].existing].register = @ + 1]
  /\ reg' = [reg EXCEPT ![id].pc = "insert"]
  /\ \E thrown \in BOOLEAN :
       lastOp' = Swallow(Op("destroy", id, "registerRun", reg[id].existing),
                         thrown)
  /\ UNCHANGED <<now, nextId, runs, kill, kills, wf, job, wait>>

\* INSERT INTO runs ... 'queued'; return { cancelledRun }
RegInsert(id) ==
  /\ reg[id].pc = "insert"
  /\ \E t \in Clock :
       /\ now' = t
       /\ runs' = [runs EXCEPT ![id] = NewRow(reg[id].key, reg[id].sha, t)]
  /\ reg' = [reg EXCEPT ![id] = [RegIdle EXCEPT !.pc = "done"]]
  /\ lastOp' = Op("registerRun", id, reg[id].solo, reg[id].existing)
  /\ UNCHANGED <<nextId, kill, kills, destroys, wf, job, wait>>

\* ------------------------------------------------------------------------
\* updateRunStatus, called by any writer
\* ------------------------------------------------------------------------
\* meta.changes of the UPDATE: the number of rows its WHERE clause matched
Changes(rs, runId) ==
  IF RowOf(rs, runId).status \in Active THEN 1 ELSE 0

UpdateRunStatus(id, s) ==
  /\ runs' = updateRunStatus(runs, id, s)
  /\ lastOp' = Op("updateRunStatus", id, "", Changes(runs, id))
  /\ UNCHANGED <<now, nextId, reg, kill, kills, destroys, wf, job, wait>>

\* a call of isRunActive, on the id of a run or on an unknown id
IsRunActive(id) ==
  /\ lastOp' = Op("isRunActive", id, "", isRunActive(runs, id))
  /\ UNCHANGED <<now, nextId, runs, reg, kill, kills, destroys, wf, job, wait>>

\* a call of listRuns, with any filters
ListRuns ==
  /\ \E f \in ListFilters :
       lastOp' = Op("listRuns", NoId, f.status, Cardinality(listRuns(runs, f)))
  /\ UNCHANGED <<now, nextId, runs, reg, kill, kills, destroys, wf, job, wait>>

\* ------------------------------------------------------------------------
\* killRun and POST /runs/:id/kill
\* ------------------------------------------------------------------------
\* runs.post("/:id/kill"): 404 when killRun returns false
KillRoute(found) == IF ~found THEN 404 ELSE 200

\* killRun without its early return for a missing row
KillSelect_NoEarlyReturn(id) ==
  /\ kill[id].pc = "idle"
  /\ kills < MaxKills
  /\ kill' = [kill EXCEPT ![id] = [pc |-> "update"]]
  /\ kills' = kills + 1
  /\ lastOp' = Op("step", NoId, "", "")
  /\ UNCHANGED <<now, nextId, runs, reg, destroys, wf, job, wait>>

\* SELECT status FROM runs WHERE id = ?; if (!row) return false
KillSelect(id) ==
  /\ kill[id].pc = "idle"
  /\ IF RowOf(runs, id) = NoRow
       THEN /\ lastOp' = Op("killRun", id, FALSE, KillRoute(FALSE))
            /\ UNCHANGED <<kill, kills>>
       ELSE /\ kills < MaxKills
            /\ kill' = [kill EXCEPT ![id] = [pc |-> "update"]]
            /\ kills' = kills + 1
            /\ lastOp' = Op("step", NoId, "", "")
  /\ UNCHANGED <<now, nextId, runs, reg, destroys, wf, job, wait>>

\* killRun with the guarded UPDATE of updateRunStatus
KillUpdate_Guarded(id) ==
  /\ kill[id].pc = "update"
  /\ runs' = updateRunStatus(runs, id, "failed")
  /\ kill' = [kill EXCEPT ![id].pc = "destroy"]
  /\ lastOp' = Op("step", NoId, "", "")
  /\ UNCHANGED <<now, nextId, reg, kills, destroys, wf, job, wait>>

\* killRun whose UPDATE has lost its WHERE id = ?: every row becomes failed
KillUpdate_NoWhere(id) ==
  /\ kill[id].pc = "update"
  /\ runs' = [i \in RunIds |->
                IF runs[i] = NoRow THEN NoRow
                                   ELSE [runs[i] EXCEPT !.status = "failed"]]
  /\ kill' = [kill EXCEPT ![id].pc = "destroy"]
  /\ lastOp' = Op("step", NoId, "", "")
  /\ UNCHANGED <<now, nextId, reg, kills, destroys, wf, job, wait>>

\* UPDATE runs SET status = 'failed' ... WHERE id = ?
KillUpdate(id) ==
  /\ kill[id].pc = "update"
  /\ runs' = SetStatusById(runs, id, "failed")
  /\ kill' = [kill EXCEPT ![id].pc = "destroy"]
  /\ lastOp' = Op("step", NoId, "", "")
  /\ UNCHANGED <<now, nextId, reg, kills, destroys, wf, job, wait>>

\* try { sandbox.destroy() } catch {}; return true
KillDestroy(id) ==
  /\ kill[id].pc = "destroy"
  /\ destroys' = [destroys EXCEPT ![id].kill = @ + 1]
  /\ kill' = [kill EXCEPT ![id] = KillIdle]
  /\ \E thrown \in BOOLEAN :
       lastOp' = Swallow(Op("killRun", id, TRUE, KillRoute(TRUE)), thrown)
  /\ UNCHANGED <<now, nextId, runs, reg, kills, wf, job, wait>>

\* ------------------------------------------------------------------------
\* ScreenshotWorkflow
\* ------------------------------------------------------------------------
\* the steps of the try block of ScreenshotWorkflow.run, in program order
StepOrder ==
  <<"mark-running", "clone-repo", "write-context", "start-agent",
    "wait-for-agent", "upload-and-comment", "mark-completed">>

StepIndex(name) == CHOOSE i \in 1..Len(StepOrder) : StepOrder[i] = name

\* retries: { limit: 2 } on wait-for-agent and upload-and-comment; the other
\* steps are given no retries
RetryLimit(name) ==
  IF name \in {"wait-for-agent", "upload-and-comment"} THEN 2 ELSE 0

CleanupPcs ==
  {"cleanup-logs", "cleanup-messages", "cleanup-kill", "cleanup-destroy"}

\* runs whose dispatch has been attempted: an instance or a message exists,
\* or its creation has thrown
Dispatched == {i \in RunIds : wf[i].pc # "none" \/ job[i].pc # "none"}

\* createWorkflowRun with registerRun not awaited: the instance may be created
\* while the registration is still in flight
WfCreate_BeforeRegister(id) ==
  /\ reg[id].pc # "idle"
  /\ id \notin Dispatched
  /\ Cardinality(Dispatched) < MaxInstances
  /\ wf' = [wf EXCEPT ![id].pc = "mark-running"]
  /\ lastOp' = Op("step", NoId, "", "")
  /\ UNCHANGED <<now, nextId, runs, reg, kill, kills, destroys, job, wait>>

\* createWorkflowRun: SCREENSHOT_WORKFLOW.create, once registerRun has returned
WfCreate(id) ==
  /\ reg[id].pc = "done"
  /\ id \notin Dispatched
  /\ Cardinality(Dispatched) < MaxInstances
  /\ wf' = [wf EXCEPT ![id].pc = "mark-running"]
  /\ lastOp' = Op("step", NoId, "", "")
  /\ UNCHANGED <<now, nextId, runs, reg, kill, kills, destroys, job, wait>>

\* createWorkflowRun: SCREENSHOT_WORKFLOW.create throws after registerRun has
\* inserted the row; neither createWorkflowRun nor the route catches it, and
\* no instance exists for the run
WfCreateThrows(id) ==
  /\ reg[id].pc = "done"
  /\ id \notin Dispatched
  /\ wf' = [wf EXCEPT ![id].pc = "create-failed"]
  /\ lastOp' = Op("createWorkflowRun", id, "create", "throws")
  /\ UNCHANGED <<now, nextId, runs, reg, kill, kills, destroys, job, wait>>

\* the callback of step `name` has thrown and no retry is left: step.do throws
\* into the try block of run(), whose catch runs mark-failed
StepThrows_SkipsCleanup(w, name) ==
  IF w.attempt < RetryLimit(name)
    THEN [w EXCEPT !.attempt = @ + 1, !.ran = @ \cup {name}]
    ELSE [w EXCEPT !.pc = "done", !.attempt = 0, !.failedAt = name,
                   !.ran = @ \cup {name}]

StepThrows(w, name) ==
  IF w.attempt < RetryLimit(name)
    THEN [w EXCEPT !.attempt = @ + 1, !.ran = @ \cup {name}]
    ELSE [w EXCEPT !.pc = "mark-failed", !.attempt = 0, !.failedAt = name,
                   !.ran = @ \cup {name}]

\* the callback of step `name` has returned: run() goes on with `next`
StepReturns(w, name, next) ==
  [w EXCEPT !.pc = next, !.attempt = 0, !.ran = @ \cup {name}]

\* step.do("mark-running", () => updateRunStatus(DB, sandboxId, "running"))
WfMarkRunning(id) ==
  /\ wf[id].pc = "mark-running"
  /\ \E ok \in BOOLEAN :
       /\ runs' = IF ok THEN updateRunStatus(runs, id, "running") ELSE runs
       /\ wf' = [wf EXCEPT ![id] =
                   IF ok THEN StepReturns(@, "mark-running", "clone-repo")
                         ELSE StepThrows(@, "mark-running")]
  /\ lastOp' = Op("step", NoId, "", "")
  /\ UNCHANGED <<now, nextId, reg, kill, kills, destroys, job, wait>>

\* a step whose callback works on the sandbox and GitHub only
HandleStep(id, name, next) ==
  /\ wf[id].pc = name
  /\ \E ok \in BOOLEAN :
       wf' = [wf EXCEPT ![id] =
                IF ok THEN StepReturns(@, name, next) ELSE StepThrows(@, name)]
  /\ lastOp' = Op("step", NoId, "", "")
  /\ UNCHANGED <<now, nextId, runs, reg, kill, kills, destroys, job, wait>>

\* run() going from clone-repo straight to start-agent
WfCloneRepo_SkipsAhead(id) == HandleStep(id, "clone-repo", "start-agent")

WfCloneRepo(id) == HandleStep(id, "clone-repo", "write-context")

WfWriteContext(id) == HandleStep(id, "write-context", "start-agent")

WfStartAgent(id) == HandleStep(id, "start-agent", "wait-for-agent")

\* waitForAgent: the in-sandbox loop prints FOUND or TIMEOUT, or exec throws;
\* if (manifestFound) uploadAndComment, else straight to mark-completed
WfWaitForAgent(id) ==
  /\ wf[id].pc = "wait-for-agent"
  /\ \E out \in {"FOUND", "TIMEOUT", "error"} :
       wf' = [wf EXCEPT ![id] =
                IF out = "FOUND"
                  THEN [StepReturns(@, "wait-for-agent", "upload-and-comment")
                          EXCEPT !.found = TRUE]
                ELSE IF out = "TIMEOUT"
                  THEN StepReturns(@, "wait-for-agent", "mark-completed")
                ELSE StepThrows(@, "wait-for-agent")]
  /\ lastOp' = Op("step", NoId, "", "")
  /\ UNCHANGED <<now, nextId, runs, reg, kill, kills, destroys, job, wait>>

\* one execution of uploadAndComment: the manifest it reads has n entries;
\* its effects are, in program order, one upload per entry and then one PR
\* comment (for an empty manifest the comment only); `done` of them have
\* taken effect when the execution returns (all of them) or throws
UploadAttempts ==
  {a \in [n : 0..MaxEntries, done : 0..(MaxEntries + 1), ret : BOOLEAN] :
     /\ a.done <= a.n + 1
     /\ a.ret => a.done = a.n + 1}

\* the `uploaded` list after k entries: the manifest entries, by their place
\* in the manifest, in the order of the for loop
Uploaded(k) == [i \in 1..k |-> i]

\* buildCommentMarkdown(commitSha, uploaded): the number of images the
\* comment lists, one for each element of `uploaded`
buildCommentMarkdown(uploaded) == Len(uploaded)

\* uploadAndComment where an empty manifest returns without a comment
uploadAndComment_SilentWhenEmpty(a) ==
  [uploads |-> IF a.done < a.n THEN a.done ELSE a.n,
   uploaded |-> Uploaded(IF a.done < a.n THEN a.done ELSE a.n),
   comment |-> IF a.done = a.n + 1 /\ a.n > 0 THEN "screenshots" ELSE "none",
   images  |-> IF a.done = a.n + 1 THEN a.n ELSE 0,
   thrown  |-> ~a.ret]

\* uploadAndComment with a loop that skips an entry it cannot read or upload
\* and posts the comment with the images it has
uploadAndComment_SkipsFailedEntries(a) ==
  [uploads |-> IF a.done < a.n THEN a.done ELSE a.n,
   uploaded |-> Uploaded(IF a.done < a.n THEN a.done ELSE a.n),
   comment |-> IF a.n > 0 THEN "screenshots"
               ELSE IF a.done = 1 THEN "no-screenshots" ELSE "none",
   images  |-> IF a.n > 0
                 THEN buildCommentMarkdown(
                        Uploaded(IF a.done < a.n THEN a.done ELSE a.n))
                 ELSE 0,
   thrown  |-> ~a.ret]

\* what one execution of uploadAndComment has done: the number of blobs put
\* to R2, the PR comment posted (the no-screenshots message when
\* manifest.screenshots.length === 0, else buildCommentMarkdown of the
\* uploaded list), the number of images it lists, and whether it threw
uploadAndComment(a) ==
  [uploads |-> IF a.done < a.n THEN a.done ELSE a.n,
   uploaded |-> Uploaded(IF a.done < a.n THEN a.done ELSE a.n),
   comment |-> IF a.done < a.n + 1 THEN "none"
               ELSE IF a.n = 0 THEN "no-screenshots" ELSE "screenshots",
   images  |-> IF a.done = a.n + 1
                 THEN buildCommentMarkdown(Uploaded(a.n))
                 ELSE 0,
   thrown  |-> ~a.ret]

Posted(e) == IF e.comment = "none" THEN 0 ELSE 1

\* uploadAndComment: step.do("upload-and-comment", { retries: { limit: 2 } })
WfUploadAndComment(id) ==
  /\ wf[id].pc = "upload-and-comment"
  /\ \E a \in UploadAttempts :
       LET e == uploadAndComment(a)
       IN /\ wf' = [wf EXCEPT ![id] =
                      [(IF e.thrown
                          THEN StepThrows(@, "upload-and-comment")
                          ELSE StepReturns(@, "upload-and-comment",
                                           "mark-completed"))
                         EXCEPT !.comments = @ + Posted(e)]]
          /\ lastOp' = Op("uploadAndComment", id, a.n, e)
  /\ UNCHANGED <<now, nextId, runs, reg, kill, kills, destroys, job, wait>>

\* mark-completed with an UPDATE that has no guard on the current status
WfMarkCompleted_Unguarded(id) ==
  /\ wf[id].pc = "mark-completed"
  /\ \E ok \in BOOLEAN :
       /\ runs' = IF ok THEN SetStatusById(runs, id, "completed") ELSE runs
       /\ wf' = [wf EXCEPT ![id] =
                   IF ok THEN StepReturns(@, "mark-completed", "cleanup-logs")
                         ELSE StepThrows(@, "mark-completed")]
  /\ lastOp' = Op("step", NoId, "", "")
  /\ UNCHANGED <<now, nextId, reg, kill, kills, destroys, job, wait>>

\* step.do("mark-completed", () => updateRunStatus(DB, sandboxId, "completed"))
WfMarkCompleted(id) ==
  /\ wf[id].pc = "mark-completed"
  /\ \E ok \in BOOLEAN :
       /\ runs' = IF ok THEN updateRunStatus(runs, id, "completed") ELSE runs
       /\ wf' = [wf EXCEPT ![id] =
                   IF ok THEN StepReturns(@, "mark-completed", "cleanup-logs")
                         ELSE StepThrows(@, "mark-completed")]
  /\ lastOp' = Op("step", NoId, "", "")
  /\ UNCHANGED <<now, nextId, reg, kill, kills, destroys, job, wait>>

\* catch { await bestEffort(() => step.do("mark-failed", ...)) } where an
\* error of mark-failed leaves run() instead of being swallowed
WfMarkFailed_Rethrows(id) ==
  /\ wf[id].pc = "mark-failed"
  /\ \E ok \in BOOLEAN :
       /\ runs' = IF ok THEN updateRunStatus(runs, id, "failed") ELSE runs
       /\ lastOp' = Op("mark-failed", id, ok, "")
       /\ wf' = [wf EXCEPT ![id] =
                   [StepReturns(@, "mark-failed",
                                IF ok THEN "cleanup-logs" ELSE "done")
                      EXCEPT !.markFailed = @ + 1]]
  /\ UNCHANGED <<now, nextId, reg, kill, kills, destroys, job, wait>>

\* catch { await bestEffort(() => step.do("mark-failed", ...)) }: an error of
\* mark-failed itself is swallowed, and run() goes on to cleanup
WfMarkFailed(id) ==
  /\ wf[id].pc = "mark-failed"
  /\ \E ok \in BOOLEAN :
       /\ runs' = IF ok THEN updateRunStatus(runs, id, "failed") ELSE runs
       /\ lastOp' = Op("mark-failed", id, ok, "")
  /\ wf' = [wf EXCEPT ![id] =
              [StepReturns(@, "mark-failed", "cleanup-logs")
                 EXCEPT !.markFailed = @ + 1]]
  /\ UNCHANGED <<now, nextId, reg, kill, kills, destroys, job, wait>>

\* a sub-action of the cleanup step without its own bestEffort: its error
\* ends the callback, and the bestEffort around step.do drops it
CleanupAction_Unwrapped(id, name, next) ==
  /\ wf[id].pc = name
  /\ \E thrown \in BOOLEAN :
       /\ wf' = [wf EXCEPT ![id] =
                   StepReturns(@, name, IF thrown THEN "done" ELSE next)]
       /\ lastOp' = Swallow(Op("cleanup", id, name, ""), thrown)
  /\ UNCHANGED <<now, nextId, runs, reg, kill, kills, destroys, job, wait>>

\* a sub-action of the cleanup step, wrapped in bestEffort: whether it throws
\* or not, the callback goes on with the next sub-action
CleanupAction(id, name, next) ==
  /\ wf[id].pc = name
  /\ wf' = [wf EXCEPT ![id] = StepReturns(@, name, next)]
  /\ \E thrown \in BOOLEAN :
       lastOp' = Swallow(Op("cleanup", id, name, ""), thrown)
  /\ UNCHANGED <<now, nextId, runs, reg, kill, kills, destroys, job, wait>>

\* cleanup: cat agent.log, syncLogsToR2
WfCleanupLogs(id) == CleanupAction(id, "cleanup-logs", "cleanup-messages")

\* cleanup: read the session file, session.messages, syncMessagesToR2
WfCleanupMessages(id) == CleanupAction(id, "cleanup-messages", "cleanup-kill")

\* cleanup: sandbox.killAllProcesses()
WfCleanupKill(id) == CleanupAction(id, "cleanup-kill", "cleanup-destroy")

\* cleanup where destroy is left out for a run that is no longer active
WfCleanupDestroy_IfActive(id) ==
  /\ wf[id].pc = "cleanup-destroy"
  /\ destroys' = IF isRunActive(runs, id)
                   THEN [destroys EXCEPT ![id].cleanup = @ + 1]
                   ELSE destroys
  /\ wf' = [wf EXCEPT ![id] = StepReturns(@, "cleanup-destroy", "done")]
  /\ \E thrown \in BOOLEAN :
       lastOp' = Swallow(Op("cleanup", id, "cleanup-destroy", ""), thrown)
  /\ UNCHANGED <<now, nextId, runs, reg, kill, kills, job, wait>>

\* cleanup: await bestEffort(() => sandbox.destroy()); run() returns
WfCleanupDestroy(id) ==
  /\ wf[id].pc = "cleanup-destroy"
  /\ destroys' = [destroys EXCEPT ![id].cleanup = @ + 1]
  /\ wf' = [wf EXCEPT ![id] = StepReturns(@, "cleanup-destroy", "done")]
  /\ \E thrown \in BOOLEAN :
       lastOp' = Swallow(Op("cleanup", id, "cleanup-destroy", ""), thrown)
  /\ UNCHANGED <<now, nextId, runs, reg, kill, kills, job, wait>>

WfStep(id) ==
  \/ WfMarkRunning(id)
  \/ WfCloneRepo(id)
  \/ WfWriteContext(id)
  \/ WfStartAgent(id)
  \/ WfWaitForAgent(id)
  \/ WfUploadAndComment(id)
  \/ WfMarkCompleted(id)
  \/ WfMarkFailed(id)
  \/ WfCleanupLogs(id)
  \/ WfCleanupMessages(id)
  \/ WfCleanupKill(id)
  \/ WfCleanupDestroy(id)

\* ------------------------------------------------------------------------
\* One attempt of wait-for-agent, in seconds
\* ------------------------------------------------------------------------
\* const AGENT_TIMEOUT_SECS = 600
AGENT_TIMEOUT_SECS == 600

\* step.do("wait-for-agent", { timeout: "12 minutes", ... })
WaitStepTimeoutSecs == 720

\* the loop body ends with `sleep 1`
SleepSecs == 1

\* when the manifest appears: early in the wait, in the last second the loop
\* looks for it, just after the loop has looked for the last time, or never
AppearTimes ==
  (0..MaxAppear)
    \cup {AGENT_TIMEOUT_SECS - 1, AGENT_TIMEOUT_SECS, Never}

\* the attempt begins: sandbox.exec starts the loop in the sandbox, or the
\* exec never answers (the sandbox is unreachable)
WaitStarts ==
  {[phase |-> "loop", hung |-> h, appears |-> a, i |-> 0, elapsed |-> 0] :
     h \in BOOLEAN, a \in AppearTimes}

InitWait == InitBase /\ wait \in WaitStarts

\* [ -f /workspace/screenshot-manifest.json ]
ManifestExists(w) == w.appears # Never /\ w.appears <= w.elapsed

\* the loop body with a sleep of two seconds
WaitLoop_SleepsTwo ==
  /\ wait.phase = "loop"
  /\ ~wait.hung
  /\ wait.elapsed < WaitStepTimeoutSecs
  /\ wait' = IF wait.i >= AGENT_TIMEOUT_SECS
               THEN [wait EXCEPT !.phase = "TIMEOUT"]
             ELSE IF ManifestExists(wait)
               THEN [wait EXCEPT !.phase = "FOUND"]
             ELSE [wait EXCEPT !.i = @ + 1, !.elapsed = @ + 2 * SleepSecs]
  /\ UNCHANGED <<now, nextId, runs, reg, kill, kills, destroys, wf, job, lastOp>>

\* for i in $(seq 1 600); do [ -f manifest ] && echo FOUND && exit 0;
\* sleep 1; done; echo TIMEOUT -- one iteration, or the end of the loop
WaitLoop ==
  /\ wait.phase = "loop"
  /\ ~wait.hung
  /\ wait.elapsed < WaitStepTimeoutSecs
  /\ wait' = IF wait.i >= AGENT_TIMEOUT_SECS
               THEN [wait EXCEPT !.phase = "TIMEOUT"]
             ELSE IF ManifestExists(wait)
               THEN [wait EXCEPT !.phase = "FOUND"]
             ELSE [wait EXCEPT !.i = @ + 1, !.elapsed = @ + SleepSecs]
  /\ UNCHANGED <<now, nextId, runs, reg, kill, kills, destroys, wf, job, lastOp>>

\* a second passes while the exec does not answer
WaitHang ==
  /\ wait.phase = "loop"
  /\ wait.hung
  /\ wait.elapsed < WaitStepTimeoutSecs
  /\ wait' = [wait EXCEPT !.elapsed = @ + 1]
  /\ UNCHANGED <<now, nextId, runs, reg, kill, kills, destroys, wf, job, lastOp>>

\* timeout: "12 minutes": the engine ends the attempt that has not returned
WaitStepTimeout ==
  /\ wait.phase = "loop"
  /\ wait.elapsed >= WaitStepTimeoutSecs
  /\ wait' = [wait EXCEPT !.phase = "step-timeout"]
  /\ UNCHANGED <<now, nextId, runs, reg, kill, kills, destroys, wf, job, lastOp>>

\* ------------------------------------------------------------------------
\* The queue consumer: handleQueue, startScreenshotJob, failAndCleanupSandbox
\* ------------------------------------------------------------------------
\* the webhook sends the job to the queue, once registerRun has returned
QueueSend(id) ==
  /\ reg[id].pc = "done"
  /\ id \notin Dispatched
  /\ Cardinality(Dispatched) < MaxInstances
  /\ job' = [job EXCEPT ![id].pc = "message"]
  /\ lastOp' = Op("step", NoId, "", "")
  /\ UNCHANGED <<now, nextId, runs, reg, kill, kills, destroys, wf, wait>>

\* the webhook route: buildQueueMessage (the GitHub fetches) or
\* SCREENSHOT_QUEUE.send throws after registerRun has inserted the row; the
\* route has no catch and no message is queued for the run
QueueSendThrows(id) ==
  /\ reg[id].pc = "done"
  /\ id \notin Dispatched
  /\ job' = [job EXCEPT ![id].pc = "send-failed"]
  /\ lastOp' = Op("webhook", id, "send", "throws")
  /\ UNCHANGED <<now, nextId, runs, reg, kill, kills, destroys, wf, wait>>

\* handleQueue without the isRunActive test: every job is set up
QueueCheckActive_NoSkip(id) ==
  /\ job[id].pc = "message"
  /\ \E ok \in BOOLEAN :
       /\ job' = [job EXCEPT ![id].pc = IF ok THEN "mark-running"
                                              ELSE "fail-status"]
       /\ lastOp' = Op("handleQueue", id, "isRunActive",
                       IF ~ok THEN "throws"
                       ELSE IF isRunActive(runs, id) THEN "active"
                       ELSE "inactive")
  /\ UNCHANGED <<now, nextId, runs, reg, kill, kills, destroys, wf, wait>>

\* handleQueue: isRunActive; if (!active) { msg.ack(); continue }; an error of
\* the query is caught by the catch of handleQueue
QueueCheckActive(id) ==
  /\ job[id].pc = "message"
  /\ \E ok \in BOOLEAN :
       /\ job' = [job EXCEPT ![id] =
                    IF ~ok THEN [@ EXCEPT !.pc = "fail-status"]
                    ELSE IF isRunActive(runs, id)
                      THEN [@ EXCEPT !.pc = "mark-running"]
                    ELSE [@ EXCEPT !.pc = "skipped", !.acks = @ + 1]]
       /\ lastOp' = Op("handleQueue", id, "isRunActive",
                       IF ~ok THEN "throws"
                       ELSE IF isRunActive(runs, id) THEN "active"
                       ELSE "inactive")
  /\ UNCHANGED <<now, nextId, runs, reg, kill, kills, destroys, wf, wait>>

\* handleQueue: await updateRunStatus(env.DB, job.sandboxId, "running")
QueueMarkRunning(id) ==
  /\ job[id].pc = "mark-running"
  /\ \E ok \in BOOLEAN :
       /\ runs' = IF ok THEN updateRunStatus(runs, id, "running") ELSE runs
       /\ job' = [job EXCEPT ![id].pc = IF ok THEN "setup" ELSE "fail-status"]
  /\ lastOp' = Op("step", NoId, "", "")
  /\ UNCHANGED <<now, nextId, reg, kill, kills, destroys, wf, wait>>

\* handleQueue: const cleanup = await startScreenshotJob(job, env); msg.ack();
\* ctx.waitUntil(cleanup()), or the catch when the setup throws
QueueSetup(id) ==
  /\ job[id].pc = "setup"
  /\ \E ok \in BOOLEAN :
       job' = [job EXCEPT ![id] =
                 IF ok THEN [@ EXCEPT !.pc = "poll", !.acks = @ + 1]
                       ELSE [@ EXCEPT !.pc = "fail-status"]]
  /\ lastOp' = Op("step", NoId, "", "")
  /\ UNCHANGED <<now, nextId, runs, reg, kill, kills, destroys, wf, wait>>

\* failAndCleanupSandbox writing failed with no guard on the current status
QueueFailStatus_Unguarded(id) ==
  /\ job[id].pc = "fail-status"
  /\ \E ok \in BOOLEAN :
       /\ runs' = IF ok THEN SetStatusById(runs, id, "failed") ELSE runs
       /\ lastOp' = Swallow(Op("failAndCleanupSandbox", id, "status", ""), ~ok)
  /\ job' = [job EXCEPT ![id].pc = "fail-destroy"]
  /\ UNCHANGED <<now, nextId, reg, kill, kills, destroys, wf, wait>>

\* failAndCleanupSandbox: try { updateRunStatus(failed) } catch {}, then the
\* best-effort write and flush of the log
QueueFailStatus(id) ==
  /\ job[id].pc = "fail-status"
  /\ \E ok \in BOOLEAN :
       /\ runs' = IF ok THEN updateRunStatus(runs, id, "failed") ELSE runs
       /\ lastOp' = Swallow(Op("failAndCleanupSandbox", id, "status", ""), ~ok)
  /\ job' = [job EXCEPT ![id].pc = "fail-destroy"]
  /\ UNCHANGED <<now, nextId, reg, kill, kills, destroys, wf, wait>>

\* handleQueue whose catch ends with msg.retry(): the message is delivered
\* again
QueueFailDestroy_Retry(id) ==
  /\ job[id].pc = "fail-destroy"
  /\ destroys' = [destroys EXCEPT ![id].cleanup = @ + 1]
  /\ job' = [job EXCEPT ![id].pc = "message"]
  /\ \E thrown \in BOOLEAN :
       lastOp' = Swallow(Op("failAndCleanupSandbox", id, "destroy", ""), thrown)
  /\ UNCHANGED <<now, nextId, runs, reg, kill, kills, wf, wait>>

\* failAndCleanupSandbox: try { await sandbox.destroy() } catch {}; msg.ack()
QueueFailDestroy(id) ==
  /\ job[id].pc = "fail-destroy"
  /\ destroys' = [destroys EXCEPT ![id].cleanup = @ + 1]
  /\ job' = [job EXCEPT ![id].pc = "done", ![id].acks = @ + 1]
  /\ \E thrown \in BOOLEAN :
       lastOp' = Swallow(Op("failAndCleanupSandbox", id, "destroy", ""), thrown)
  /\ UNCHANGED <<now, nextId, runs, reg, kill, kills, wf, wait>>

\* pollForCompletion: const deadline = Date.now() + 600_000
PollDeadlineMs == 600000

\* pollForCompletion: await new Promise((r) => setTimeout(r, 3_000))
PollTickMs == 3000

\* pollForCompletion: if (pollCount % 10 === 0)
CheckEvery == 10

\* every iteration of the loop sleeps 3 s, so the loop condition
\* Date.now() < deadline is false after this many iterations at the latest
MaxPollTicks == PollDeadlineMs \div PollTickMs

\* pollForCompletion with the manifest looked for before isRunActive is read:
\* a 10th iteration on an inactive run can still end with the manifest found
TickOutcomes_ManifestFirst(rs, id, n) ==
  IF n % CheckEvery = 0 /\ ~isRunActive(rs, id)
    THEN {"cancelled", "found", "error"}
    ELSE {"continue", "error"}
           \cup (IF n % CheckEvery = 0 \/ n > 1 THEN {"found"} ELSE {})
           \cup (IF n > 1 THEN {"notfound"} ELSE {})

\* how the n-th iteration of the loop of pollForCompletion can end.  At every
\* 10th iteration isRunActive is read first: if the run is inactive the loop
\* logs and returns cancelled, and ctx.log (an exec in the sandbox) may throw;
\* otherwise the manifest is looked for, then the session status is read
\* (agentDone needs pollCount > 1), and any exec may throw
TickOutcomes(rs, id, n) ==
  IF n % CheckEvery = 0 /\ ~isRunActive(rs, id)
    THEN {"cancelled", "error"}
    ELSE {"continue", "error"}
           \cup (IF n % CheckEvery = 0 \/ n > 1 THEN {"found"} ELSE {})
           \cup (IF n > 1 THEN {"notfound"} ELSE {})

\* the cleanup closure with `if (cancelled) return` before finalStatus = null:
\* cleanupResources is given "failed" for a cancelled poll
AfterPoll_CancelledFails(j, out) ==
  IF out = "found"
    THEN [j EXCEPT !.pc = "upload", !.pollCount = 0, !.poll = out]
  ELSE [j EXCEPT !.pc = "final-status", !.finalStatus = "failed",
                 !.pollCount = 0, !.poll = out]

\* the state of the cleanup closure after pollForCompletion has ended with
\* `out`: cancelled -> finalStatus = null; return; manifest found -> on to
\* uploadAndComment; no manifest or an error -> finalStatus stays "failed"
AfterPoll(j, out) ==
  IF out = "found"
    THEN [j EXCEPT !.pc = "upload", !.pollCount = 0, !.poll = out]
  ELSE IF out = "cancelled"
    THEN [j EXCEPT !.pc = "final-status", !.finalStatus = "null",
                   !.pollCount = 0, !.poll = out]
  ELSE [j EXCEPT !.pc = "final-status", !.finalStatus = "failed",
                 !.pollCount = 0, !.poll = out]

\* one iteration of the while loop of pollForCompletion
QueuePollTick(id) ==
  /\ job[id].pc = "poll"
  /\ job[id].pollCount < MaxPollTicks
  /\ LET n == job[id].pollCount + 1
     IN \E out \in TickOutcomes(runs, id, n) :
          /\ job' = [job EXCEPT ![id] =
                       IF out = "continue" THEN [@ EXCEPT !.pollCount = n]
                                           ELSE AfterPoll(@, out)]
          /\ lastOp' = IF n % CheckEvery = 0 /\ ~isRunActive(runs, id)
                         THEN Op("pollForCompletion", id, "inactive", out)
                       ELSE IF out = "continue" THEN Op("step", NoId, "", "")
                       ELSE Op("pollForCompletion", id, "active", out)
  /\ UNCHANGED <<now, nextId, runs, reg, kill, kills, destroys, wf, wait>>

\* while (Date.now() < deadline) is false: the loop ends without a manifest
QueuePollDeadline(id) ==
  /\ job[id].pc = "poll"
  /\ job[id].pollCount >= 1
  /\ job' = [job EXCEPT ![id] = AfterPoll(@, "notfound")]
  /\ lastOp' = Op("pollForCompletion", id, "deadline", "notfound")
  /\ UNCHANGED <<now, nextId, runs, reg, kill, kills, destroys, wf, wait>>

\* await uploadAndComment(ctx); finalStatus = "completed"
QueueUpload(id) ==
  /\ job[id].pc = "upload"
  /\ \E a \in UploadAttempts :
       LET e == uploadAndComment(a)
       IN /\ job' = [job EXCEPT ![id] =
                       [@ EXCEPT !.pc = "final-status", !.upload = TRUE,
                                 !.comments = @ + Posted(e),
                                 !.finalStatus = IF e.thrown THEN "failed"
                                                 ELSE "completed"]]
          /\ lastOp' = Op("uploadAndComment", id, a.n, e)
  /\ UNCHANGED <<now, nextId, runs, reg, kill, kills, destroys, wf, wait>>

\* cleanupResources with the status written before the final flush
QueueFlush_WritesStatus(id) ==
  /\ job[id].pc = "final-status"
  /\ \E ok \in BOOLEAN :
       runs' = IF ok /\ job[id].finalStatus # "null"
                 THEN updateRunStatus(runs, id, job[id].finalStatus)
                 ELSE runs
  /\ job' = [job EXCEPT ![id].pc = "write-status"]
  /\ \E thrown \in BOOLEAN :
       lastOp' = Swallow(Op("cleanupResources", id, "flush", ""), thrown)
  /\ UNCHANGED <<now, nextId, reg, kill, kills, destroys, wf, wait>>

\* cleanupResources: await Promise.all([ctx.flushLogs(), ctx.flushMessages()]);
\* each flush catches its own errors
QueueFlush(id) ==
  /\ job[id].pc = "final-status"
  /\ job' = [job EXCEPT ![id].pc = "write-status"]
  /\ \E thrown \in BOOLEAN :
       lastOp' = Swallow(Op("cleanupResources", id, "flush", ""), thrown)
  /\ UNCHANGED <<now, nextId, runs, reg, kill, kills, destroys, wf, wait>>

\* cleanupResources: if (finalStatus) try { updateRunStatus(finalStatus) }
\* catch {}, then server.close and killAllProcesses, each in its try/catch
QueueFinalStatus(id) ==
  /\ job[id].pc = "write-status"
  /\ \E ok \in BOOLEAN :
       runs' = IF ok /\ job[id].finalStatus # "null"
                 THEN updateRunStatus(runs, id, job[id].finalStatus)
                 ELSE runs
  /\ job' = [job EXCEPT ![id].pc = "destroy"]
  /\ \E thrown \in BOOLEAN :
       lastOp' = Swallow(Op("cleanupResources", id, "status-close-kill",
                            job[id].finalStatus),
                         thrown)
  /\ UNCHANGED <<now, nextId, reg, kill, kills, destroys, wf, wait>>

\* cleanupResources: try { await ctx.sandbox.destroy() } catch {}
QueueDestroy(id) ==
  /\ job[id].pc = "destroy"
  /\ destroys' = [destroys EXCEPT ![id].cleanup = @ + 1]
  /\ job' = [job EXCEPT ![id].pc = "done"]
  /\ \E thrown \in BOOLEAN :
       lastOp' = Swallow(Op("cleanupResources", id, "destroy", ""), thrown)
  /\ UNCHANGED <<now, nextId, runs, reg, kill, kills, wf, wait>>

QueueStep(id) ==
  \/ QueueCheckActive(id)
  \/ QueueMarkRunning(id)
  \/ QueueSetup(id)
  \/ QueueFailStatus(id)
  \/ QueueFailDestroy(id)
  \/ QueuePollTick(id)
  \/ QueuePollDeadline(id)
  \/ QueueUpload(id)
  \/ QueueFlush(id)
  \/ QueueFinalStatus(id)
  \/ QueueDestroy(id)

\* ------------------------------------------------------------------------
\* POST /webhook
\* ------------------------------------------------------------------------
\* the characters of a signature header: "=" stands for the prefix "sha256=",
\* "a" and "b" for hex digits, "e-acute" for a character outside ASCII, which
\* is one UTF-16 code unit and two bytes in UTF-8
SigChars == {"=", "a", "b", "e-acute"}

Utf8Width(c) == IF c = "e-acute" THEN 2 ELSE 1

\* encoder.encode(s).byteLength
RECURSIVE ByteLen(_)
ByteLen(str) ==
  IF str = <<>> THEN 0 ELSE Utf8Width(Head(str)) + ByteLen(Tail(str))

\* the request bodies: a merged pull request, an @visual-diff comment, and
\* an event the handler ignores
Bodies == {"pr-merged", "mention", "other"}

\* arrayBufferToHex(HMAC-SHA-256(secret, payload)), for the configured secret
HmacHex(payload) ==
  CASE payload = "pr-merged" -> <<"a">>
    [] payload = "mention" -> <<"b">>
    [] OTHER -> <<"a">>

\* const expected = `sha256=${arrayBufferToHex(sig)}`
ExpectedSignature(payload) == <<"=">> \o HmacHex(payload)

\* the signature headers a client may send; the empty one is a missing header
Signatures == UNION {[1..n -> SigChars] : n \in 0..MaxSigLen}

\* timingSafeEqual: if (a.length !== b.length) return false; then
\* crypto.subtle.timingSafeEqual on the encoded strings, which throws when
\* the two buffers differ in byte length
timingSafeEqual(a, b) ==
  IF Len(a) # Len(b) THEN "false"
  ELSE IF ByteLen(a) # ByteLen(b) THEN "throws"
  ELSE IF a = b THEN "true" ELSE "false"

verifyWebhookSignature(payload, signature) ==
  timingSafeEqual(ExpectedSignature(payload), signature)

\* webhook.post("/"): 401 on a signature that is not valid; a merged pull
\* request or an @visual-diff comment goes on to registerRun, whose SELECT is
\* the rest of this step; any other event is answered 200. An error thrown
\* by the verification is answered 500 by the framework.
WebhookPost ==
  \E body \in Bodies, signature \in Signatures :
    LET valid == verifyWebhookSignature(body, signature)
        genuine == signature = ExpectedSignature(body)
    IN  IF valid = "true" /\ body \in {"pr-merged", "mention"}
          THEN RegSelectOf(MaxRuns, Keys)
          ELSE /\ lastOp' = Op("webhook", NoId, genuine,
                                CASE valid = "throws" -> 500
                                  [] valid = "false" -> 401
                                  [] OTHER -> 200)
               /\ UNCHANGED <<now, nextId, runs, reg, kill, kills, destroys,
                              wf, job, wait>>

\* ------------------------------------------------------------------------
\* Specifications
\* ------------------------------------------------------------------------
\* the registry under concurrent registerRun, updateRunStatus and killRun
Next ==
  \/ RegSelect
  \/ \E id \in 1..MaxRuns : RegUpdate(id)
  \/ \E id \in 1..MaxRuns : RegDestroy(id)
  \/ \E id \in 1..MaxRuns : RegInsert(id)
  \/ \E id \in 1..MaxRuns, s \in RunStatus : UpdateRunStatus(id, s)
  \/ \E id \in 0..MaxRuns : KillSelect(id)
  \/ \E id \in 0..MaxRuns : KillUpdate(id)
  \/ \E id \in 0..MaxRuns : KillDestroy(id)
  \/ \E id \in 0..MaxRuns : IsRunActive(id)
  \/ ListRuns

Spec == Init /\ [][Next]_vars

\* registerRun calls only
NextReg ==
  \/ RegSelectOnly
  \/ \E id \in RunIds : RegUpdate(id)
  \/ \E id \in RunIds : RegDestroy(id)
  \/ \E id \in RunIds : RegInsert(id)

SpecReg == Init /\ [][NextReg]_vars

\* webhook deliveries, the registrations they start and the orchestration
\* created for them
NextWebhook ==
  \/ WebhookPost
  \/ \E id \in 1..MaxRuns : RegUpdate(id)
  \/ \E id \in 1..MaxRuns : RegDestroy(id)
  \/ \E id \in 1..MaxRuns : RegInsert(id)
  \/ \E id \in 1..MaxRuns : WfCreate(id)
  \/ \E id \in 1..MaxRuns : QueueSend(id)

SpecWebhook == Init /\ [][NextWebhook]_vars

RegSelectOrch == RegSelectOf(MaxWfRuns, OneKey)

\* runs driven by ScreenshotWorkflow or by the queue consumer, with later
\* registrations and killRun calls landing at any point of their lifecycle
NextOrch ==
  \/ RegSelectOrch
  \/ \E id \in 1..MaxWfRuns : RegUpdate(id)
  \/ \E id \in 1..MaxWfRuns : RegDestroy(id)
  \/ \E id \in 1..MaxWfRuns : RegInsert(id)
  \/ \E id \in 1..MaxWfRuns : KillSelect(id)
  \/ \E id \in 1..MaxWfRuns : KillUpdate(id)
  \/ \E id \in 1..MaxWfRuns : KillDestroy(id)
  \/ \E id \in 1..MaxWfRuns : WfCreate(id)
  \/ \E id \in 1..MaxWfRuns : WfStep(id)
  \/ \E id \in 1..MaxWfRuns : QueueSend(id)
  \/ \E id \in 1..MaxWfRuns : QueueStep(id)

SpecOrch == Init /\ [][NextOrch]_vars

\* what the ingress route does for a run once registerRun has returned
Dispatch(id) ==
  \/ WfCreate(id)
  \/ WfCreateThrows(id)
  \/ QueueSend(id)
  \/ QueueSendThrows(id)

\* registrations, their dispatch, which may fail, and the orchestrators
NextDispatch ==
  \/ RegSelectOrch
  \/ \E id \in 1..MaxWfRuns : RegUpdate(id)
  \/ \E id \in 1..MaxWfRuns : RegDestroy(id)
  \/ \E id \in 1..MaxWfRuns : RegInsert(id)
  \/ \E id \in 1..MaxWfRuns : Dispatch(id)
  \/ \E id \in 1..MaxWfRuns : WfStep(id)
  \/ \E id \in 1..MaxWfRuns : QueueStep(id)

SpecDispatch == Init /\ [][NextDispatch]_vars

\* the queue consumer alone: jobs sent for registered runs, with later
\* registrations and killRun calls landing at any point
NextQueue ==
  \/ RegSelectOrch
  \/ \E id \in 1..MaxWfRuns : RegUpdate(id)
  \/ \E id \in 1..MaxWfRuns : RegDestroy(id)
  \/ \E id \in 1..MaxWfRuns : RegInsert(id)
  \/ \E id \in 1..MaxWfRuns : KillSelect(id)
  \/ \E id \in 1..MaxWfRuns : KillUpdate(id)
  \/ \E id \in 1..MaxWfRuns : KillDestroy(id)
  \/ \E id \in 1..MaxWfRuns : QueueSend(id)
  \/ \E id \in 1..MaxWfRuns : QueueStep(id)

SpecQueue == Init /\ [][NextQueue]_vars

\* the consumer and the promise handed to ctx.waitUntil keep running
SpecQueueLive ==
  /\ SpecQueue
  /\ \A id \in 1..MaxWfRuns : WF_vars(QueueStep(id))

\* the registry's writers on runs of two pull requests: registerRun,
\* updateRunStatus and killRun calls
WrittenStatuses == {"running", "completed", "failed"}

NextFrame ==
  \/ RegSelectOnly
  \/ \E id \in RunIds : RegUpdate(id)
  \/ \E id \in RunIds : RegDestroy(id)
  \/ \E id \in RunIds : RegInsert(id)
  \/ \E id \in 1..MaxRuns, s \in WrittenStatuses : UpdateRunStatus(id, s)
  \/ \E id \in 1..MaxRuns : KillSelect(id)
  \/ \E id \in 1..MaxRuns : KillUpdate(id)
  \/ \E id \in 1..MaxRuns : KillDestroy(id)

SpecFrame == Init /\ [][NextFrame]_vars

\* the two orchestrator variants side by side: run 1, of one pull request, is
\* driven by ScreenshotWorkflow and run 2, of another, by the queue consumer;
\* both have been registered and dispatched and nothing supersedes them
WorkflowRun == 1
QueueRun == 2

InitPair ==
  /\ now = 0
  /\ nextId = 3
  /\ runs = [i \in RunIds |->
               IF i = WorkflowRun
                 THEN NewRow(CHOOSE k \in Keys : k.prNumber = 42, "sha1", 0)
               ELSE IF i = QueueRun
                 THEN NewRow(CHOOSE k \in Keys : k.prNumber = 7, "sha1", 0)
               ELSE NoRow]
  /\ reg = [i \in RunIds |->
              IF i \in {WorkflowRun, QueueRun}
                THEN [RegIdle EXCEPT !.pc = "done"] ELSE RegIdle]
  /\ kill = [i \in KillIds |-> KillIdle]
  /\ kills = 0
  /\ destroys = [i \in KillIds |-> NoDestroys]
  /\ wf = [i \in RunIds |->
             IF i = WorkflowRun THEN [WfNone EXCEPT !.pc = "mark-running"]
                                ELSE WfNone]
  /\ job = [i \in RunIds |->
              IF i = QueueRun THEN [JobNone EXCEPT !.pc = "message"]
                              ELSE JobNone]
  /\ lastOp = Op("step", NoId, "", "")
  /\ wait = WaitIdle

NextPair ==
  \/ WfStep(WorkflowRun)
  \/ QueueStep(QueueRun)

SpecPair == InitPair /\ [][NextPair]_vars

\* the route handler goes on after registerRun until it has dispatched the run
\* or thrown; the engine and the queue consumer keep running what they hold
SpecDispatchLive ==
  /\ SpecDispatch
  /\ \A id \in 1..MaxWfRuns :
       WF_vars(Dispatch(id)) /\ WF_vars(WfStep(id)) /\ WF_vars(QueueStep(id))

\* one attempt of wait-for-agent against the clock of the step timeout
NextWait ==
  \/ WaitLoop
  \/ WaitHang
  \/ WaitStepTimeout

SpecWait == InitWait /\ [][NextWait]_vars

\* the workflow engine keeps running every instance it has created, and the
\* queue consumer and its waitUntil promise keep running
SpecOrchLive ==
  /\ SpecOrch
  /\ \A id \in 1..MaxWfRuns : WF_vars(WfStep(id)) /\ WF_vars(QueueStep(id))

\* ------------------------------------------------------------------------
\* Properties of the registry
\* ------------------------------------------------------------------------
RowsOf(key) == {i \in RunIds : SameKey(runs[i], key)}

\* C1: in every reachable state each (owner, repo, pr_number) key has at most
\* one run whose status is queued or running.
C1_OneActivePerKey ==
  \A key \in Keys : Cardinality(ActiveFor(runs, key)) <= 1

\* C2: concurrent registerRun calls for one key never leave two of their runs
\* active together, and once all have returned exactly one of the inserted
\* runs is queued and every other one is cancelled.
C2_ConcurrentRegisterSerialized ==
  \A key \in Keys :
    /\ Cardinality(ActiveFor(runs, key)) <= 1
    /\ ((\A i \in RunIds : ~InFlight(reg[i])) /\ RowsOf(key) # {})
         => \E i \in RowsOf(key) :
              /\ runs[i].status = "queued"
              /\ \A j \in RowsOf(key) \ {i} : runs[j].status = "cancelled"

\* C3: when a registerRun call that overlapped no other registerRun call
\* returns, its new run is queued and is the only active run of its key: every
\* other run of the key, however many were active before, is cancelled.
C3_SequentialRegisterSupersedesAll ==
  (lastOp.op = "registerRun" /\ lastOp.arg = TRUE)
    => /\ runs[lastOp.id].status = "queued"
       /\ \A j \in RowsOf(KeyOf(runs[lastOp.id])) \ {lastOp.id} :
            runs[j].status = "cancelled"

\* C4: once a run is completed, cancelled or failed, only killRun's UPDATE
\* changes its status.
C4_TerminalOnlyKillOverrides ==
  [][\A id \in RunIds :
       (runs[id].status \in Terminal /\ runs'[id].status # runs[id].status)
         => (kill[id].pc = "update" /\ kill'[id].pc = "destroy")]_vars

\* C5: updateRunStatus(runId, s) writes s if and only if the run is queued or
\* running at the moment of the statement; on a cancelled, completed or failed
\* run (or a missing one) the table is left as it is, for every s; no other
\* row is touched.
C5_UpdateRunStatusGuard ==
  [][lastOp'.op = "updateRunStatus"
       => \A id \in RunIds, s \in RunStatus :
            (lastOp'.id = id /\ runs' = updateRunStatus(runs, id, s))
              => IF runs[id].status \in {"queued", "running"}
                   THEN /\ runs'[id] = [runs[id] EXCEPT !.status = s]
                        /\ \A j \in RunIds \ {id} : runs'[j] = runs[j]
                   ELSE runs' = runs]_vars

\* an updateRunStatus call has just found its run terminal and changed nothing
C5_Witness ==
  /\ lastOp.op = "updateRunStatus"
  /\ lastOp.ret = 0
  /\ RowOf(runs, lastOp.id).status \in Terminal

\* C6: killRun on an existing run sets its status to failed whatever the
\* status was, then attempts destroy on that run's handle, and returns true.
C6_KillForcesFailed ==
  [][\A id \in KillIds :
       \* the call returns only after its destroy attempt, and returns true
       /\ (lastOp'.op = "killRun" /\ lastOp'.id = id /\ RowOf(runs, id) # NoRow)
            => /\ kill[id].pc = "destroy"
               /\ destroys'[id].kill = destroys[id].kill + 1
               /\ lastOp'.arg = TRUE
       \* the destroy attempt is reached only through the UPDATE to failed
       /\ (kill'[id].pc = "destroy" /\ kill[id].pc # "destroy")
            => /\ kill[id].pc = "update"
               /\ runs'[id].status = "failed"
       \* a call that found a row goes on to its UPDATE
       /\ (kill[id].pc = "idle" /\ kill'[id].pc # "idle")
            => /\ RowOf(runs, id) # NoRow
               /\ kill'[id].pc = "update"]_vars

\* a killRun call has returned true, after its UPDATE and its destroy attempt,
\* and the run it was called on is failed
C6_Witness ==
  /\ lastOp.op = "killRun"
  /\ lastOp.arg = TRUE
  /\ RowOf(runs, lastOp.id).status = "failed"
  /\ destroys[lastOp.id].kill = 1

\* C7: killRun for an id with no row returns false, creates or changes no row
\* and attempts no destroy, and the kill route answers 404; it returns false
\* in no other case.
C7_KillUnknownRun ==
  [][\A id \in KillIds :
       (lastOp'.op = "killRun" /\ lastOp'.id = id)
         => IF RowOf(runs, id) = NoRow
              THEN /\ lastOp'.arg = FALSE
                   /\ lastOp'.ret = 404
                   /\ runs' = runs
                   /\ destroys' = destroys
              ELSE /\ lastOp'.arg = TRUE
                   /\ lastOp'.ret = 200]_vars

\* a killRun call has just returned false for an id that has no row
C7_Witness ==
  /\ lastOp.op = "killRun"
  /\ lastOp.arg = FALSE
  /\ RowOf(runs, lastOp.id) = NoRow

\* ------------------------------------------------------------------------
\* Properties of the orchestrators
\* ------------------------------------------------------------------------
\* steps 1-6 of ScreenshotWorkflow.run
Steps1to6 ==
  {"mark-running", "clone-repo", "write-context", "start-agent",
   "wait-for-agent", "upload-and-comment"}

\* the steps that come after `name` in the try block
LaterSteps(name) ==
  {StepOrder[i] : i \in {j \in 1..Len(StepOrder) : j > StepIndex(name)}}

Superseded(id) == RowOf(runs, id).status = "cancelled"

\* killRun has run its UPDATE on the run
Killed(id) == kill[id].pc = "destroy" \/ destroys[id].kill > 0

\* the orchestration of the run has started: the workflow instance exists, or
\* the queue consumer has taken the job on
OrchStarted(id) ==
  \/ wf[id].pc # "none"
  \/ job[id].pc \notin {"none", "message", "skipped"}

C10_FailureSemantics ==
  /\ [](\A id \in RunIds :
          wf[id].failedAt \in Steps1to6
            => /\ wf[id].pc \in {"mark-failed", "done"} \cup CleanupPcs
               /\ wf[id].ran \cap LaterSteps(wf[id].failedAt) = {}
               /\ wf[id].markFailed = IF wf[id].pc = "mark-failed" THEN 0 ELSE 1
               /\ wf[id].pc = "done" => CleanupPcs \subseteq wf[id].ran)
  /\ [][\A id \in RunIds :
          (wf[id].pc = "mark-failed" /\ wf'[id] # wf[id])
            => /\ wf'[id].pc = "cleanup-logs"
               /\ lastOp'.op = "mark-failed"
               /\ lastOp'.id = id
               /\ \A j \in RunIds \ {id} : runs'[j] = runs[j]
               /\ IF lastOp'.arg /\ runs[id].status \in {"queued", "running"}
                    THEN runs'[id] = [runs[id] EXCEPT !.status = "failed"]
                    ELSE runs'[id] = runs[id]]_vars

\* the mark-failed step of a workflow has just failed on a run that is still
\* active, and the workflow has gone on to cleanup
C10_Witness ==
  /\ lastOp.op = "mark-failed"
  /\ lastOp.arg = FALSE
  /\ wf[lastOp.id].failedAt \in Steps1to6
  /\ wf[lastOp.id].pc = "cleanup-logs"
  /\ isRunActive(runs, lastOp.id)

\* C11: while the queue-driven orchestrator waits for the agent, when a check
\* of the registry reports the run no longer active, pollForCompletion ends at
\* once with the cancelled outcome (finalStatus = null); after that outcome
\* uploadAndComment is not called (no manifest read, no upload, no comment),
\* no status is written, and cleanupResources goes on to destroy the handle.
C11_PollCancelled ==
  [][\A id \in RunIds :
       /\ (lastOp'.op = "pollForCompletion" /\ lastOp'.id = id
             /\ lastOp'.arg = "inactive")
            => /\ job'[id].pc = "final-status"
               /\ job'[id].finalStatus = "null"
               /\ ~job'[id].upload
               /\ runs' = runs
       /\ (job[id].finalStatus = "null" /\ job'[id] # job[id])
            => /\ runs' = runs
               /\ ~job'[id].upload
               /\ job'[id].pc \in {"write-status", "destroy", "done"}
               /\ job'[id].pc = "done"
                    => destroys'[id].cleanup = destroys[id].cleanup + 1]_vars

\* the step just taken belongs to the orchestrator of run id
OrchStep(id) == wf'[id] # wf[id] \/ job'[id] # job[id]

\* C12: a run superseded by registerRun stays cancelled whatever its
\* orchestrator writes later (mark-running, mark-completed, mark-failed, the
\* queue consumer's running, failed and final status): no orchestrator step
\* changes a cancelled row, and a cancelled row changes only by killRun's UPDATE.
C12_SupersededStaysCancelled ==
  [][\A id \in RunIds :
       runs[id].status = "cancelled"
         => /\ OrchStep(id) => runs' = runs
            /\ runs'[id] # runs[id]
                 => /\ kill[id].pc = "update"
                    /\ kill'[id].pc = "destroy"]_vars

\* the mark-failed step of a workflow has just run its UPDATE on a run that a
\* later registerRun had cancelled, and the run is still cancelled
C12_Witness ==
  /\ lastOp.op = "mark-failed"
  /\ lastOp.arg = TRUE
  /\ runs[lastOp.id].status = "cancelled"
  /\ destroys[lastOp.id].register = 1

\* waitForAgent has returned false for the workflow of run id: the in-sandbox
\* loop printed TIMEOUT
NotFound(id) ==
  /\ "wait-for-agent" \in wf[id].ran
  /\ wf[id].pc \notin {"wait-for-agent", "none"}
  /\ wf[id].failedAt # "wait-for-agent"
  /\ ~wf[id].found

\* C13: in ScreenshotWorkflow.run, when wait-for-agent ends without finding
\* the manifest, upload-and-comment is not executed and the run transitions
\* to failed: it is never marked completed, and once the workflow has ended
\* its status is failed (or cancelled, when it was superseded meanwhile).
C13_NotFoundFails ==
  \A id \in RunIds :
    NotFound(id)
      => /\ "upload-and-comment" \notin wf[id].ran
         /\ wf[id].pc # "upload-and-comment"
         /\ runs[id].status # "completed"
         /\ wf[id].pc = "done" => runs[id].status \in {"failed", "cancelled"}

\* C14: an execution of uploadAndComment that reads a manifest with zero
\* entries and returns has posted exactly one PR comment, the no-screenshots
\* message, and has put no blob; the orchestrator then goes on to completed:
\* the workflow to its mark-completed step, the queue consumer to
\* cleanupResources with finalStatus completed, and that write turns a run
\* that is still queued or running into completed.
C14_EmptyManifest ==
  [][\A id \in RunIds :
       /\ (lastOp'.op = "uploadAndComment" /\ lastOp'.id = id
             /\ lastOp'.arg = 0 /\ ~lastOp'.ret.thrown)
            => /\ lastOp'.ret.uploads = 0
               /\ lastOp'.ret.comment = "no-screenshots"
               /\ wf'[id].comments + job'[id].comments
                    = wf[id].comments + job[id].comments + 1
               /\ \/ wf[id].pc = "upload-and-comment"
                       /\ wf'[id].pc = "mark-completed"
                  \/ job[id].pc = "upload"
                       /\ job'[id].pc = "final-status"
                       /\ job'[id].finalStatus = "completed"
       /\ (wf[id].pc = "mark-completed" /\ wf'[id].pc = "cleanup-logs"
             /\ runs[id].status \in Active)
            => runs'[id].status = "completed"
       /\ (job[id].pc = "write-status" /\ job'[id].pc = "destroy"
             /\ job[id].finalStatus = "completed")
            => runs'[id].status \in {runs[id].status, "completed"}]_vars

\* the upload-and-comment step of a workflow has just returned for an empty
\* manifest: one comment posted by this run, mark-completed is next
C14_Witness ==
  /\ lastOp.op = "uploadAndComment"
  /\ lastOp.arg = 0
  /\ ~lastOp.ret.thrown
  /\ lastOp.ret.comment = "no-screenshots"
  /\ wf[lastOp.id].pc = "mark-completed"
  /\ wf[lastOp.id].comments = 1

\* the steps of the try block
TrySteps == {StepOrder[i] : i \in 1..Len(StepOrder)}

\* the steps of the try block that have run when step `name` begins:
\* all the steps before it, upload-and-comment only if the manifest was found
StepsBefore(name, found) ==
  {StepOrder[i] : i \in {j \in 1..Len(StepOrder) : j < StepIndex(name)}}
    \ (IF found THEN {} ELSE {"upload-and-comment"})

\* C15: within one run of ScreenshotWorkflow the steps execute strictly in
\* the order mark-running, clone-repo, write-context, start-agent,
\* wait-for-agent, upload-and-comment, mark-completed, cleanup: when a step
\* of the try block is the current one, exactly the steps before it have run
\* (upload-and-comment only when the manifest was found) and no cleanup action
\* has; mark-running is first; the cleanup actions run after every other
\* step, in their order, and nothing runs after them.
C15_StepOrder ==
  \A id \in RunIds :
    LET w == wf[id]
        tried == w.ran \cap TrySteps
    IN /\ w.ran # {} => "mark-running" \in w.ran
       /\ w.pc \in TrySteps
            => /\ w.ran \ {w.pc} = StepsBefore(w.pc, w.found)
               /\ w.pc = "upload-and-comment" => w.found
       /\ w.pc \in CleanupPcs \cup {"done", "mark-failed"}
            => tried = IF w.failedAt = "none"
                         THEN StepsBefore("mark-completed", w.found)
                                \cup {"mark-completed"}
                         ELSE StepsBefore(w.failedAt, w.found) \cup {w.failedAt}
       /\ w.pc = "cleanup-logs" => w.ran \cap CleanupPcs = {}
       /\ w.pc = "cleanup-messages" => w.ran \cap CleanupPcs = {"cleanup-logs"}
       /\ w.pc = "cleanup-kill"
            => w.ran \cap CleanupPcs = {"cleanup-logs", "cleanup-messages"}
       /\ w.pc = "cleanup-destroy"
            => w.ran \cap CleanupPcs = CleanupPcs \ {"cleanup-destroy"}
       /\ w.pc = "done" => CleanupPcs \subseteq w.ran

\* a workflow has run all its steps, upload-and-comment included, and ended
C15_Witness ==
  \E id \in RunIds :
    /\ wf[id].pc = "done"
    /\ wf[id].failedAt = "none"
    /\ TrySteps \cup CleanupPcs \subseteq wf[id].ran

\* C18: the step timeout of wait-for-agent (12 minutes) is strictly greater
\* than the internal deadline (600 iterations of one second), so in an
\* attempt whose loop runs and never sees the manifest the loop ends first,
\* with TIMEOUT, after 600 seconds, and the step timeout never fires.
C18_InnerDeadlineFirst ==
  /\ AGENT_TIMEOUT_SECS * SleepSecs < WaitStepTimeoutSecs
  /\ (~wait.hung /\ wait.phase \notin {"idle", "FOUND"})
       => /\ wait.phase # "step-timeout"
          /\ wait.elapsed < WaitStepTimeoutSecs
          /\ wait.phase = "TIMEOUT"
               => /\ wait.i = AGENT_TIMEOUT_SECS
                  /\ wait.elapsed = AGENT_TIMEOUT_SECS * SleepSecs

\* the loop has run its 600 iterations without the manifest and printed
\* TIMEOUT
C18_Witness ==
  /\ wait.phase = "TIMEOUT"
  /\ wait.appears = Never
  /\ wait.elapsed = AGENT_TIMEOUT_SECS

\* the call `id` of registerRun executes its INSERT
InsertStep(id) == reg[id].pc = "insert" /\ reg'[id].pc = "done"

\* the orchestration of run `id` is created: SCREENSHOT_WORKFLOW.create or
\* SCREENSHOT_QUEUE.send
OrchCreated(id) ==
  /\ wf[id].pc = "none" /\ job[id].pc = "none"
  /\ wf'[id].pc # "none" \/ job'[id].pc # "none"

\* C19: within a registration the superseded run has been set cancelled
\* before the new run's row is inserted (it is still cancelled then, unless
\* killRun has rewritten it since); the row is inserted as queued and did not
\* exist before; the new run's workflow instance or queue message is created
\* only once registerRun has returned and the row exists; and no orchestrator
\* step is ever taken for a run that has no row.
C19_RegisterBeforeOrchestrate ==
  [][\A id \in RunIds :
       /\ InsertStep(id) =>
            /\ RowOf(runs, id) = NoRow
            /\ RowOf(runs', id) # NoRow
            /\ RowOf(runs', id).status = "queued"
            /\ reg[id].existing # NoId =>
                 \/ RowOf(runs, reg[id].existing).status = "cancelled"
                 \/ Killed(reg[id].existing)
       /\ OrchCreated(id) =>
            /\ reg[id].pc = "done"
            /\ RowOf(runs, id) # NoRow
       /\ OrchStep(id) /\ ~OrchCreated(id) => RowOf(runs, id) # NoRow]_vars

\* a run was superseded by a later registration, whose row is queued and
\* whose workflow instance has just been created
C19_Witness ==
  \E id \in RunIds, x \in RunIds :
    /\ x # id
    /\ RowOf(runs, x) # NoRow
    /\ RowOf(runs, x).status = "cancelled"
    /\ destroys[x].register = 1
    /\ RowOf(runs, id) # NoRow
    /\ RowOf(runs, id).status = "queued"
    /\ wf[id].pc = "mark-running"

\* the rows other than `id` are left as they are
OthersKept(id) == \A j \in RunIds \ {id} : runs'[j] = runs[j]

\* C20: a call of registerRun supersedes a run exactly when its SELECT finds a
\* queued or running run for the key, and that run is one of them; it then
\* sets that row, and no other, to cancelled, attempts destroy once, on that
\* run's handle only, and returns that run; a call that found none goes
\* straight to its INSERT, attempts no destroy, changes no existing row and
\* returns null. Either way the INSERT adds the new row as queued, leaves the
\* other rows alone and ends the call.
C20_RegisterRunContract ==
  [][\A id \in RunIds :
       LET r == reg[id]
           r2 == reg'[id]
       IN  /\ (r.pc = "idle" /\ r2.pc # "idle") =>
                /\ (r2.existing # NoId) <=> (ActiveFor(runs, r2.key) # {})
                /\ r2.existing # NoId => r2.existing \in ActiveFor(runs, r2.key)
                /\ r2.pc = IF r2.existing = NoId THEN "insert" ELSE "update"
                /\ runs' = runs
                /\ destroys' = destroys
           /\ (r.pc = "update" /\ r2.pc # "update") =>
                /\ r2.pc = "destroy"
                /\ RowOf(runs', r.existing).status = "cancelled"
                /\ OthersKept(r.existing)
                /\ destroys' = destroys
           /\ (r.pc = "destroy" /\ r2.pc # "destroy") =>
                /\ r2.pc = "insert"
                /\ r.existing # NoId
                /\ destroys' =
                     [destroys EXCEPT ![r.existing].register = @ + 1]
                /\ runs' = runs
           /\ (r.pc = "insert" /\ r2.pc # "insert") =>
                /\ r2.pc = "done"
                /\ RowOf(runs', id).status = "queued"
                /\ OthersKept(id)
                /\ destroys' = destroys
                /\ lastOp'.op = "registerRun"
                /\ lastOp'.id = id
                /\ lastOp'.ret = r.existing]_vars

\* a call has just returned the run it superseded: that run is cancelled with
\* one destroy attempt on its handle, while an earlier call on another key
\* found nothing and left no destroy attempt behind
C20_Witness ==
  /\ lastOp.op = "registerRun"
  /\ lastOp.ret # NoId
  /\ RowOf(runs, lastOp.ret).status = "cancelled"
  /\ destroys[lastOp.ret].register = 1
  /\ RowOf(runs, lastOp.id).status = "queued"
  /\ \E j \in RunIds \ {lastOp.id, lastOp.ret} :
       /\ RowOf(runs, j) # NoRow
       /\ RowOf(runs, j).status = "queued"
       /\ destroys[j].register = 0
       /\ \A k \in RunIds : destroys[k].register > 0 => k = lastOp.ret

\* ------------------------------------------------------------------------
\* Teardown
\* ------------------------------------------------------------------------
\* the step made a destroy attempt that threw
DestroyThrew(o) ==
  /\ o.caught
  /\ \/ o.op \in {"destroy", "killRun"}
     \/ o.op \in {"cleanupResources", "failAndCleanupSandbox"}
          /\ o.arg = "destroy"
     \/ o.op = "cleanup" /\ o.arg = "cleanup-destroy"

\* C21: a destroy attempt that throws changes no row and is not seen by the
\* caller: registerRun, with the old run already set cancelled, goes on to
\* its INSERT, which adds the queued row and returns the superseded run;
\* killRun, past its UPDATE to failed, returns true and the route answers 200;
\* the workflow's cleanup and the queue consumer's cleanupResources and
\* failAndCleanupSandbox finish normally.
C21_DestroyFailureSwallowed ==
  [][/\ DestroyThrew(lastOp') =>
          LET id == lastOp'.id
          IN  /\ runs' = runs
              /\ lastOp'.op = "destroy" =>
                   /\ reg'[id].pc = "insert"
                   /\ \/ RowOf(runs', reg'[id].existing).status = "cancelled"
                      \/ Killed(reg'[id].existing)
              /\ lastOp'.op = "killRun" =>
                   /\ kill[id].pc = "destroy"
                   /\ kill'[id] = KillIdle
                   /\ lastOp'.arg = TRUE
                   /\ lastOp'.ret = 200
              /\ lastOp'.op = "cleanup" => wf'[id].pc = "done"
              /\ lastOp'.op \in {"cleanupResources", "failAndCleanupSandbox"}
                   => job'[id].pc = "done"
     /\ \A id \in RunIds :
          (DestroyThrew(lastOp) /\ lastOp.op = "destroy" /\ lastOp.id = id
             /\ reg'[id] # reg[id] /\ reg'[id].solo = reg[id].solo)
            => /\ InsertStep(id)
               /\ RowOf(runs', id).status = "queued"
               /\ lastOp'.op = "registerRun"
               /\ lastOp'.ret = reg[id].existing
               /\ ~lastOp'.caught]_vars

\* registerRun's destroy has just thrown on a handle that killRun had
\* destroyed before, and the call stands before its INSERT
C21_Witness ==
  /\ DestroyThrew(lastOp)
  /\ lastOp.op = "destroy"
  /\ reg[lastOp.id].pc = "insert"
  /\ destroys[lastOp.ret].kill = 1
  /\ destroys[lastOp.ret].register = 1

\* the sub-actions of the cleanup callback, in program order
CleanupOrder ==
  <<"cleanup-logs", "cleanup-messages", "cleanup-kill", "cleanup-destroy",
    "done">>

NextCleanup(name) ==
  CleanupOrder[1 + CHOOSE i \in 1..4 : CleanupOrder[i] = name]

KillUpdateStep(id) == kill[id].pc = "update" /\ kill'[id].pc = "destroy"

\* the UPDATE of a registerRun call that supersedes run `id`
SupersedeStep(id) ==
  \E c \in RunIds :
    /\ reg[c].pc = "update"
    /\ reg'[c].pc = "destroy"
    /\ reg[c].existing = id

\* C23: every status change of a run is one of: queued on its INSERT;
\* queued -> running, running -> completed and running -> failed by its
\* orchestrator; queued or running -> cancelled by a superseding registerRun;
\* anything -> failed by killRun. In particular the orchestrator writes
\* neither cancelled nor queued, no run returns to queued, and the
\* orchestrator takes no run from queued to completed or failed.
C23_StatusStateMachine ==
  [][\A id \in RunIds :
       LET s == RowOf(runs, id).status
           t == RowOf(runs', id).status
       IN  s # t =>
             \/ InsertStep(id) /\ s = "absent" /\ t = "queued"
             \/ KillUpdateStep(id) /\ t = "failed"
             \/ SupersedeStep(id) /\ s \in Active /\ t = "cancelled"
             \/ /\ OrchStep(id)
                /\ \/ s = "queued" /\ t = "running"
                   \/ s = "running" /\ t \in {"completed", "failed"}]_vars

\* C24: isRunActive(runId) returns true exactly when a row with that id
\* exists and its status is queued or running (false for completed,
\* cancelled, failed and for an id with no row), and the call changes nothing.
C24_IsRunActive ==
  [][lastOp'.op = "isRunActive" =>
       LET row == RowOf(runs, lastOp'.id)
       IN  /\ lastOp'.ret \in BOOLEAN
           /\ lastOp'.ret <=>
                (row # NoRow /\ (row.status = "queued" \/ row.status = "running"))
           /\ row = NoRow => lastOp'.ret = FALSE
           /\ row.status \in {"completed", "cancelled", "failed"}
                => lastOp'.ret = FALSE
           /\ UNCHANGED <<now, nextId, runs, reg, kill, kills, destroys, wf,
                          job, wait>>]_vars

\* isRunActive has returned false for a completed run, with a running run in
\* the table
C24_Witness ==
  /\ lastOp.op = "isRunActive"
  /\ lastOp.ret = FALSE
  /\ RowOf(runs, lastOp.id).status = "completed"
  /\ \E j \in RunIds : RowOf(runs, j).status = "running"

\* the rows that the step adds to the table
Added == {i \in RunIds : runs[i] = NoRow /\ runs'[i] # NoRow}

\* C25: no step deletes a row or changes the owner, repo, pr_number or
\* commit_sha of a row (its id is its place in the table); rows are added
\* only by the INSERT of registerRun, one row per call that reaches its
\* INSERT, the row of the call's own id; updateRunStatus, killRun,
\* isRunActive and listRuns add none.
C25_RowsKept ==
  [][/\ \A i \in RunIds :
          runs[i] # NoRow =>
            /\ runs'[i] # NoRow
            /\ runs'[i].owner = runs[i].owner
            /\ runs'[i].repo = runs[i].repo
            /\ runs'[i].pr_number = runs[i].pr_number
            /\ runs'[i].commit_sha = runs[i].commit_sha
     /\ \A i \in Added : InsertStep(i) /\ Added = {i}
     /\ \A i \in RunIds : InsertStep(i) => Added = {i}
     /\ lastOp'.op \in {"updateRunStatus", "killRun", "isRunActive", "listRuns"}
          => Added = {}]_vars

\* listRuns has just returned two rows, one of them cancelled by the
\* registration of the other
C25_Witness ==
  /\ lastOp.op = "listRuns"
  /\ lastOp.arg = ""
  /\ lastOp.ret = 2
  /\ \E i \in RunIds : RowOf(runs, i).status = "cancelled"

\* C26: a webhook request whose signature is not the HMAC of its body under
\* the secret is answered 401 and changes nothing: no run is registered, no
\* run is superseded, no workflow instance or queue message is created.
C26_BadSignatureRejected ==
  [][(lastOp'.op = "webhook" /\ lastOp'.arg = FALSE) =>
       /\ lastOp'.ret = 401
       /\ UNCHANGED <<now, nextId, runs, reg, kill, kills, destroys, wf, job,
                      wait>>]_vars

\* C27: once a run is cancelled, no step of its orchestrator (workflow or
\* queue consumer) puts a screenshot to R2 or posts a PR comment for it.
C27_SupersededNeverPublishes ==
  [][\A id \in RunIds :
       Superseded(id) =>
         /\ wf'[id].comments = wf[id].comments
         /\ job'[id].comments = job[id].comments
         /\ (lastOp'.op = "uploadAndComment" /\ lastOp'.id = id)
              => lastOp'.ret.uploads = 0]_vars

\* C28: when a step of a run's orchestrator turns the run's status to
\* completed, the orchestrator has posted a PR comment for the run (the
\* screenshots comment or the no-screenshots one).
C28_CompletedHasComment ==
  [][\A id \in RunIds :
       (OrchStep(id)
          /\ RowOf(runs, id).status # "completed"
          /\ RowOf(runs', id).status = "completed")
         => wf[id].comments + job[id].comments >= 1]_vars

\* C29: in an execution of uploadAndComment on a manifest of n > 0 entries,
\* the entries are read and uploaded in manifest order; a comment is posted
\* only when all n have been uploaded, it is the screenshots comment and it
\* lists n images; an execution in which the read or the upload of an entry
\* fails posts no comment.
C29_CommentAfterAllUploads ==
  [][(lastOp'.op = "uploadAndComment" /\ lastOp'.arg > 0) =>
       LET n == lastOp'.arg
           e == lastOp'.ret
       IN  /\ e.uploads = Len(e.uploaded)
           /\ e.uploads <= n
           /\ \A i \in 1..Len(e.uploaded) : e.uploaded[i] = i
           /\ e.comment # "none" =>
                /\ e.uploads = n
                /\ e.comment = "screenshots"
                /\ e.images = n
           /\ e.uploads < n => (e.comment = "none" /\ e.thrown)
           /\ \E id \in RunIds :
                wf'[id].comments + job'[id].comments
                  = wf[id].comments + job[id].comments + Posted(e)]_vars

\* an execution on a manifest of two entries has uploaded the first, failed
\* on the second and posted no comment
C29_Witness ==
  /\ lastOp.op = "uploadAndComment"
  /\ lastOp.arg = 2
  /\ lastOp.ret.uploads = 1
  /\ lastOp.ret.thrown
  /\ lastOp.ret.comment = "none"
  /\ wf[lastOp.id].comments + job[lastOp.id].comments = 0

\* C30: over all the attempts of upload-and-comment of a run, the first one
\* and those repeated after a failure, at most one PR comment is posted.
C30_AtMostOneComment ==
  \A id \in RunIds : wf[id].comments + job[id].comments <= 1

\* ------------------------------------------------------------------------
\* Properties of the dispatch and of the queue consumer
\* ------------------------------------------------------------------------
\* C31: every run inserted by registerRun eventually reaches a terminal
\* status (completed, failed or cancelled) under fair scheduling, also when
\* its dispatch (workflow creation, payload building or queue send) fails
\* after the row was inserted.
C31_EventuallyTerminal ==
  \A id \in RunIds :
    (runs[id] # NoRow) ~> (RowOf(runs, id).status \in Terminal)

\* the step just taken is a step of the cleanup closure of run id
ClosureStep(id) ==
  /\ job[id].pc \in {"poll", "upload", "final-status", "write-status",
                     "destroy"}
  /\ job'[id] # job[id]

\* C32: in the cleanup closure of the queue-driven orchestrator the status
\* handed to cleanupResources and written by it is completed if and only if
\* uploadAndComment returned without error; it is failed when polling, the
\* upload or the comment raised an error or when polling ended with no
\* manifest; and nothing is written when polling returned cancelled.
C32_FinalStatus ==
  [][\A id \in RunIds :
       ClosureStep(id) =>
         /\ job[id].pc = "poll" =>
               /\ job'[id].pc = "poll" =>
                     job'[id].finalStatus = job[id].finalStatus
               /\ job'[id].pc # "poll" =>
                     /\ lastOp'.op = "pollForCompletion" /\ lastOp'.id = id
                     /\ lastOp'.ret = "found" <=> job'[id].pc = "upload"
                     /\ lastOp'.ret = "found" =>
                           job'[id].finalStatus = "failed"
                     /\ lastOp'.ret \in {"notfound", "error"} =>
                           /\ job'[id].pc = "final-status"
                           /\ job'[id].finalStatus = "failed"
                     /\ lastOp'.ret = "cancelled" =>
                           /\ job'[id].pc = "final-status"
                           /\ job'[id].finalStatus = "null"
               /\ runs' = runs
         /\ job[id].pc = "upload" =>
               /\ lastOp'.op = "uploadAndComment" /\ lastOp'.id = id
               /\ job'[id].pc = "final-status"
               /\ job'[id].finalStatus = "completed" <=> ~lastOp'.ret.thrown
               /\ job'[id].finalStatus = "failed" <=> lastOp'.ret.thrown
               /\ runs' = runs
         /\ job[id].pc = "final-status" =>
               /\ job'[id].finalStatus = job[id].finalStatus
               /\ runs' = runs
         /\ job[id].pc = "write-status" =>
               /\ lastOp'.op = "cleanupResources"
               /\ lastOp'.ret = job[id].finalStatus
               /\ job[id].finalStatus = "completed" =>
                     job[id].upload /\ job[id].comments >= 1
               /\ job[id].finalStatus = "null" => runs' = runs
               /\ job[id].finalStatus # "null" =>
                     \/ runs' = updateRunStatus(runs, id, job[id].finalStatus)
                     \/ runs' = runs
         /\ job[id].pc = "destroy" => runs' = runs]_vars

\* cleanupResources has just written completed for a run whose
\* uploadAndComment had returned
C32_Witness ==
  \E id \in RunIds :
    /\ lastOp.op = "cleanupResources"
    /\ lastOp.id = id
    /\ lastOp.ret = "completed"
    /\ job[id].pc = "destroy"
    /\ job[id].upload
    /\ RowOf(runs, id).status = "completed"

\* C33: in cleanupResources the final flush of logs and messages is attempted
\* before the final status is written, and the status is written before the
\* handle is destroyed: a step of the closure changes the run's row only
\* after the flush attempt has finished and before the destroy attempt.
C33_FlushStatusDestroy ==
  [][\A id \in RunIds :
       ClosureStep(id) =>
         /\ job'[id].pc = "write-status" =>
               /\ job[id].pc = "final-status"
               /\ lastOp'.op = "cleanupResources" /\ lastOp'.arg = "flush"
               /\ runs' = runs
               /\ destroys' = destroys
         /\ runs' # runs =>
               /\ job[id].pc = "write-status"
               /\ job'[id].pc = "destroy"
               /\ runs' = updateRunStatus(runs, id, job[id].finalStatus)
               /\ destroys[id].cleanup = 0
               /\ destroys' = destroys
         /\ job'[id].pc = "destroy" => job[id].pc = "write-status"
         /\ destroys' # destroys =>
               /\ job[id].pc = "destroy"
               /\ job'[id].pc = "done"
               /\ destroys'[id].cleanup = destroys[id].cleanup + 1
               /\ runs' = runs]_vars

\* cleanupResources has flushed and then written failed on a running run whose
\* poll had ended without a manifest; its destroy attempt is still to come
C33_Witness ==
  \E id \in RunIds :
    /\ lastOp.op = "cleanupResources"
    /\ lastOp.arg = "status-close-kill"
    /\ lastOp.id = id
    /\ lastOp.ret = "failed"
    /\ job[id].pc = "destroy"
    /\ RowOf(runs, id).status = "failed"
    /\ destroys[id].cleanup = 0
    /\ destroys[id].kill = 0

\* the job of run id has been skipped or has not got past its message
Untouched(id) ==
  /\ destroys[id].cleanup = 0
  /\ ~job[id].upload
  /\ job[id].comments = 0
  /\ job[id].finalStatus = "failed"

\* C34, as claimed: when the queue consumer picks up a job whose run is not
\* active (cancelled, failed, completed or missing), it acknowledges the
\* message and skips the job, writing no status, doing nothing on the handle
\* and starting no agent.
C34_InactiveSkipped ==
  [][\A id \in RunIds :
       (job[id].pc = "message" /\ job'[id] # job[id]
          /\ ~isRunActive(runs, id))
         => /\ job'[id].pc = "skipped"
            /\ job'[id].acks = 1
            /\ runs' = runs
            /\ destroys' = destroys]_vars

\* C34, amended: when isRunActive returns false for the job's run, the
\* consumer acknowledges the message and skips the job for good, with no
\* status written, nothing done on the handle and no agent started; the
\* query returns false exactly for a run that is not queued or running; when
\* the query itself throws, the job takes the setup-failure path instead.
C34_InactiveSkippedWhenQueryReturns ==
  [][\A id \in RunIds :
       /\ (job[id].pc = "message" /\ job'[id] # job[id]) =>
            /\ lastOp'.op = "handleQueue" /\ lastOp'.id = id
            /\ lastOp'.ret = "inactive" =>
                 /\ ~isRunActive(runs, id)
                 /\ job'[id].pc = "skipped"
                 /\ job'[id].acks = 1
                 /\ Untouched(id)'
            /\ lastOp'.ret = "active" =>
                 isRunActive(runs, id) /\ job'[id].pc = "mark-running"
            /\ lastOp'.ret = "throws" => job'[id].pc = "fail-status"
            /\ runs' = runs
            /\ destroys' = destroys
       /\ job[id].pc = "skipped" =>
            /\ job'[id] = job[id]
            /\ Untouched(id)]_vars

\* the consumer has just skipped the job of a run that a later registerRun
\* had cancelled
C34_Witness ==
  \E id \in RunIds :
    /\ lastOp.op = "handleQueue"
    /\ lastOp.id = id
    /\ lastOp.ret = "inactive"
    /\ job[id].pc = "skipped"
    /\ RowOf(runs, id).status = "cancelled"

\* the places of handleQueue's loop body before its msg.ack()
BeforeAck == {"message", "mark-running", "setup", "fail-status", "fail-destroy"}

\* C35: handleQueue acknowledges every message exactly once and never asks
\* for a retry, whichever path is taken (run inactive, setup succeeded, setup
\* failed with any error, an error of the registry calls included): a message
\* the loop has finished with has one ack, no message has more than one, and
\* no message is delivered again.
C35_AckOnce ==
  /\ [](\A id \in RunIds :
          /\ job[id].acks <= 1
          /\ job[id].pc \in BeforeAck \cup {"none"} => job[id].acks = 0
          /\ job[id].pc \notin BeforeAck \cup {"none"} => job[id].acks = 1)
  /\ [][\A id \in RunIds :
         /\ job'[id].acks >= job[id].acks
         /\ job'[id].pc = "message" => job[id].pc \in {"none", "message"}
         /\ job'[id].acks # job[id].acks =>
              \/ job[id].pc = "message" /\ job'[id].pc = "skipped"
              \/ job[id].pc = "setup" /\ job'[id].pc = "poll"
              \/ job[id].pc = "fail-destroy" /\ job'[id].pc = "done"]_vars

\* a job whose isRunActive query threw has gone through failAndCleanupSandbox
\* and its message has been acknowledged once
C35_Witness ==
  \E id \in RunIds :
    /\ lastOp.op = "failAndCleanupSandbox"
    /\ lastOp.id = id
    /\ job[id].pc = "done"
    /\ job[id].acks = 1
    /\ RowOf(runs, id).status = "queued"

\* the setup of the job of run id has failed: handleQueue's catch has been
\* entered from mark-running or from startScreenshotJob
SetupFailed(id) ==
  /\ job[id].pc \in {"mark-running", "setup"}
  /\ job'[id].pc = "fail-status"

\* what failAndCleanupSandbox is to make of the row of run id
FailedIfActive(rs, id) ==
  [rs EXCEPT ![id].status = IF @ \in Active THEN "failed" ELSE @]

\* the destroy step of failAndCleanupSandbox, which ends handleQueue's catch
FailDestroyStep(id) ==
  /\ job[id].pc = "fail-destroy" /\ job'[id] # job[id]
  /\ job'[id].pc = "done"
  /\ job'[id].acks = 1
  /\ lastOp'.op = "failAndCleanupSandbox" /\ lastOp'.arg = "destroy"
  /\ destroys'[id].cleanup = destroys[id].cleanup + 1
  /\ \A o \in KillIds \ {id} : destroys'[o] = destroys[o]
  /\ runs' = runs

\* C36, as claimed: when the setup of a queue job fails, the run becomes
\* failed if it was queued or running and is left unchanged if it was
\* terminal, destroy is attempted exactly once on the run's handle, and no
\* best-effort action raises out of handleQueue.
C36_SetupFailure ==
  [][\A id \in RunIds :
       /\ SetupFailed(id) => destroys'[id].cleanup = 0
       /\ (job[id].pc = "fail-status" /\ job'[id] # job[id]) =>
            /\ job'[id].pc = "fail-destroy"
            /\ runs' = FailedIfActive(runs, id)
            /\ destroys' = destroys
       /\ (job[id].pc = "fail-destroy" /\ job'[id] # job[id]) =>
            FailDestroyStep(id)]_vars

\* C36, amended: the write of failed is itself best-effort: the run becomes
\* failed if it was queued or running and stays as it was if it was terminal,
\* unless the UPDATE throws, in which case the error is swallowed and the row
\* is left as it was, possibly queued or running; in both cases destroy is
\* then attempted exactly once on the run's handle and the message is
\* acknowledged, and nothing raises out of handleQueue.
C36_SetupFailureBestEffort ==
  [][\A id \in RunIds :
       /\ SetupFailed(id) => destroys'[id].cleanup = 0
       /\ (job[id].pc = "fail-status" /\ job'[id] # job[id]) =>
            /\ job'[id].pc = "fail-destroy"
            /\ lastOp'.op = "failAndCleanupSandbox" /\ lastOp'.arg = "status"
            /\ runs' = IF lastOp'.caught THEN runs
                                         ELSE FailedIfActive(runs, id)
            /\ destroys' = destroys
       /\ (job[id].pc = "fail-destroy" /\ job'[id] # job[id]) =>
            FailDestroyStep(id)]_vars

\* the setup of a job has failed: failAndCleanupSandbox has written failed
\* and attempted its one destroy, which threw and was swallowed
C36_Witness ==
  \E id \in RunIds :
    /\ lastOp.op = "failAndCleanupSandbox"
    /\ lastOp.arg = "destroy"
    /\ lastOp.id = id
    /\ lastOp.caught
    /\ job[id].pc = "done"
    /\ RowOf(runs, id).status = "failed"
    /\ destroys[id] = [register |-> 0, kill |-> 0, cleanup |-> 1]

\* the step just taken is an iteration of the loop of pollForCompletion of
\* run id (not the loop condition turning false)
PollTick(id) ==
  /\ job[id].pc = "poll"
  /\ job'[id] # job[id]
  /\ ~(lastOp'.op = "pollForCompletion" /\ lastOp'.arg = "deadline")

\* C37: in pollForCompletion isRunActive is read at every 10th iteration and
\* at no other, before the manifest check of that iteration; when the run is
\* inactive at such an iteration the result is cancelled, with no manifest
\* found, whether the manifest file exists or not.
C37_CheckEveryTenth ==
  [][\A id \in RunIds :
       PollTick(id) =>
         LET n == job[id].pollCount + 1
             inactive == n % CheckEvery = 0 /\ ~isRunActive(runs, id)
         IN  /\ inactive <=>
                   (lastOp'.op = "pollForCompletion" /\ lastOp'.id = id
                      /\ lastOp'.arg = "inactive")
             /\ inactive =>
                   /\ lastOp'.ret = "cancelled"
                   /\ job'[id].pc = "final-status"
                   /\ job'[id].finalStatus = "null"
             /\ (lastOp'.op = "pollForCompletion" /\ lastOp'.id = id
                   /\ lastOp'.ret = "cancelled") => inactive]_vars

\* how a step that ends pollForCompletion of run id relates its outcome to
\* the checks of the iteration n it ends in
PollOutcome(id, outcomes) ==
  LET n == job[id].pollCount + 1
  IN  /\ lastOp'.op = "pollForCompletion" /\ lastOp'.id = id
      /\ lastOp'.ret \in outcomes
      /\ lastOp'.ret = "cancelled" =>
            /\ lastOp'.arg = "inactive"
            /\ n % CheckEvery = 0 /\ ~isRunActive(runs, id)
            /\ job'[id].pc = "final-status"
            /\ ~job'[id].upload
      /\ lastOp'.ret = "found" =>
            /\ lastOp'.arg = "active"
            /\ n % CheckEvery = 0 \/ n > 1
            /\ job'[id].pc = "upload"
      /\ lastOp'.ret = "notfound" =>
            /\ lastOp'.arg = "deadline" \/ n > 1
            /\ job'[id].pc = "final-status"

\* a step of pollForCompletion of run id is one more iteration, within the
\* iterations the deadline leaves room for, or ends it in one of `outcomes`
PollStep(id, outcomes) ==
  (job[id].pc = "poll" /\ job'[id] # job[id]) =>
    /\ job'[id].pc = "poll" =>
          /\ job'[id].pollCount = job[id].pollCount + 1
          /\ job'[id].pollCount <= MaxPollTicks
    /\ job'[id].pc # "poll" => PollOutcome(id, outcomes)

SetupSteps == {"mark-running", "clone-repo", "write-context", "start-agent"}

\* the scenario the ended workflow of run w went through
WorkflowScenario(w) ==
  IF wf[w].failedAt \in SetupSteps THEN "setup-failure"
  ELSE IF wf[w].failedAt # "none" THEN "other"
  ELSE IF wf[w].found THEN "found"
  ELSE "never"

\* the scenario the ended queue job of run q went through: without a poll it
\* has failed in its setup; else the way its poll ended tells
QueueScenario(q) ==
  IF job[q].poll = "none" THEN "setup-failure"
  ELSE IF job[q].poll = "notfound" THEN "never"
  ELSE IF job[q].poll = "cancelled" THEN "superseded"
  ELSE IF job[q].poll = "found" /\ job[q].finalStatus = "completed"
    THEN "found"
  ELSE "other"

\* C39: for the same scenario (manifest found, manifest never appearing,
\* failure in a setup step) ScreenshotWorkflow.run and the queue-driven
\* handleQueue + closure leave their run in the same final status, have
\* posted the same number of comments and have attempted the same destroy.
C39_VariantsAgree ==
  (/\ wf[WorkflowRun].pc = "done"
   /\ job[QueueRun].pc = "done"
   /\ WorkflowScenario(WorkflowRun) = QueueScenario(QueueRun))
    => /\ (runs[WorkflowRun].status \in Terminal
            /\ runs[QueueRun].status \in Terminal)
           => runs[WorkflowRun].status = runs[QueueRun].status
       /\ wf[WorkflowRun].comments = job[QueueRun].comments
       /\ destroys[WorkflowRun].cleanup = destroys[QueueRun].cleanup

\* ------------------------------------------------------------------------
\* Frame of the registry's writers
\* ------------------------------------------------------------------------
\* the existing rows the step just taken has changed
Touched == {j \in RunIds : runs[j] # NoRow /\ runs'[j] # runs[j]}

\* C40: a registerRun call for a key K changes the status of at most one
\* existing run, the one its SELECT returned, which is of key K, and leaves
\* the runs of other keys alone; killRun(id) and updateRunStatus(id, s)
\* change no run but id; and a destroy attempt is made only on the handle of
\* the run a registerRun call has superseded or of the run killRun was
\* called on, one handle at a time.
C40_Frame ==
  [][/\ \A id \in RunIds :
          reg'[id].pc # reg[id].pc =>
            LET K == IF reg[id].pc = "idle" THEN reg'[id].key ELSE reg[id].key
            IN  /\ Cardinality(Touched) <= 1
                /\ \A j \in Touched :
                      /\ j = reg[id].existing
                      /\ SameKey(runs[j], K)
                      /\ runs'[j] = [runs[j] EXCEPT !.status = "cancelled"]
                /\ \A j \in RunIds :
                      (runs[j] # NoRow /\ ~SameKey(runs[j], K))
                        => runs'[j] = runs[j]
     /\ \A id \in KillIds :
          kill'[id] # kill[id] => Touched \subseteq {id}
     /\ lastOp'.op = "updateRunStatus" => Touched \subseteq {lastOp'.id}
     /\ \A x \in KillIds :
          destroys'[x] # destroys[x] =>
            /\ \A y \in KillIds \ {x} : destroys'[y] = destroys[y]
            /\ \/ \E id \in RunIds :
                    /\ reg[id].pc = "destroy" /\ reg'[id].pc # "destroy"
                    /\ reg[id].existing = x
                    /\ x # NoId
                    /\ SameKey(RowOf(runs, x), reg[id].key)
                    /\ destroys'[x] = [destroys[x] EXCEPT !.register = @ + 1]
               \/ /\ kill[x].pc = "destroy" /\ kill'[x].pc # "destroy"
                  /\ RowOf(runs, x) # NoRow
                  /\ destroys'[x] = [destroys[x] EXCEPT !.kill = @ + 1]]_vars

\* a registerRun call has cancelled the run of its key that it had selected
\* and stands before its destroy, while a run of another pull request is
\* still queued
C40_Witness ==
  \E id \in RunIds, j \in RunIds :
    /\ reg[id].pc = "destroy"
    /\ RowOf(runs, reg[id].existing).status = "cancelled"
    /\ SameKey(RowOf(runs, reg[id].existing), reg[id].key)
    /\ runs[j].status = "queued"
    /\ ~SameKey(runs[j], reg[id].key)

TypeOK ==
  /\ now \in 0..MaxId
  /\ nextId \in 1..(MaxId + 1)
  /\ \A i \in RunIds : runs[i] = NoRow \/ runs[i].status \in RunStatus
  /\ \A i \in RunIds : wf[i].attempt \in 0..2 /\ wf[i].markFailed \in 0..1
  /\ \A i \in RunIds : job[i].finalStatus \in {"completed", "failed", "null"}
  /\ \A i \in RunIds : job[i].pollCount \in 0..MaxPollTicks
  /\ \A i \in RunIds : wf[i].comments \in 0..3 /\ job[i].comments \in 0..1
  /\ \A i \in RunIds : job[i].acks \in 0..1
  /\ \A i \in RunIds :
       job[i].poll \in {"none", "found", "notfound", "cancelled", "error"}
  /\ \A i \in KillIds : destroys[i].cleanup \in 0..1

====
